---- MODULE Spec2Model ----
(***************************************************************************)
(* The presence-automation client of deilabs-bot (src/deilabs_bot/client.py)*)
(* as a state machine: one worker runs ensure_presence, leave_lab,          *)
(* get_status or interactive_login against a live portal page.  The browser *)
(* (page.goto, page.content, page.click, ...) is the environment: every     *)
(* call's result is drawn from a small set.                                 *)
(***************************************************************************)
EXTENDS Integers, Sequences, FiniteSets, TLC

(***************************************************************************)
(* Text.  A Python str is a sequence of one-character strings, so that      *)
(* str.lower() and the `in` substring test are computed, not assumed.       *)
(***************************************************************************)
Uppers ==
    <<"A","B","C","D","E","F","G","H","I","J","K","L","M","N","O","P","Q","R","S","T","U",
      "V","W","X","Y","Z">>

Lowers ==
    <<"a","b","c","d","e","f","g","h","i","j","k","l","m","n","o","p","q","r","s","t","u",
      "v","w","x","y","z">>

\* str.lower() on one character
LowerChar(c) ==
    IF \E i \in 1..Len(Uppers) : Uppers[i] = c
    THEN Lowers[CHOOSE i \in 1..Len(Uppers) : Uppers[i] = c]
    ELSE c

\* str.lower()
Lower(s) == [i \in 1..Len(s) |-> LowerChar(s[i])]

\* needle in hay
Contains(needle, hay) ==
    \E i \in 1..(Len(hay) - Len(needle) + 1) :
        SubSeq(hay, i, i + Len(needle) - 1) = needle

\* ---- the markers the classifier looks for (client.py:47-55, 281-282) ----
NeedleLogin ==
    <<"l","o","g","i","n">>

NeedleShibboleth ==
    <<"s","h","i","b","b","o","l","e","t","h">>

NeedleSessionExpired ==
    <<"s","e","s","s","i","o","n"," ","e","x","p","i","r","e","d">>

NeedleSeemsExpired ==
    <<"s","e","s","s","i","o","n"," ","s","e","e","m","s"," ","t","o"," ","h","a","v","e",
      " ","e","x","p","i","r","e","d">>

NeedleEntered ==
    <<"Y","o","u"," ","h","a","v","e"," ","e","n","t","e","r","e","d"," ","t","h","e"," ",
      "l","a","b">>

NeedleExit ==
    <<"E","x","i","t"," ","f","r","o","m"," ","l","a","b">>

NeedleClose ==
    <<"L","a","b","o","r","a","t","o","r","i","e","s"," ","c","l","o","s","e">>

NeedleClosedNow ==
    <<"L","a","b","o","r","a","t","o","r","i","e","s"," ","a","r","e"," ","c","l","o","s",
      "e","d"," ","a","t"," ","t","h","i","s"," ","t","i","m","e">>

\* ---- the retry markers of _is_retryable_navigation_error (client.py:162-171) ----
MarkNsInterrupt ==
    <<"n","s","_","e","r","r","o","r","_","n","e","t","_","i","n","t","e","r","r","u","p",
      "t">>

MarkNetErr ==
    <<"n","e","t",":",":","e","r","r","_">>

MarkTimedOut ==
    <<"t","i","m","e","d"," ","o","u","t">>

MarkTimeout ==
    <<"t","i","m","e","o","u","t">>

MarkUnavailable ==
    <<"t","e","m","p","o","r","a","r","i","l","y"," ","u","n","a","v","a","i","l","a","b",
      "l","e">>

MarkReset ==
    <<"c","o","n","n","e","c","t","i","o","n"," ","r","e","s","e","t">>

MarkAborted ==
    <<"c","o","n","n","e","c","t","i","o","n"," ","a","b","o","r","t","e","d">>

MarkNetChanged ==
    <<"n","e","t","w","o","r","k"," ","c","h","a","n","g","e","d">>

retry_markers ==
    <<MarkNsInterrupt, MarkNetErr, MarkTimedOut, MarkTimeout, MarkUnavailable, MarkReset,
      MarkAborted, MarkNetChanged>>

\* ---- what the portal can serve: urls, html fragments, goto error messages ----
LAB_IN_OUT_URL ==
    <<"h","t","t","p","s",":","/","/","d","e","i","l","a","b","s",".","d","e","i",".","u",
      "n","i","p","d",".","i","t","/","l","a","b","o","r","a","t","o","r","y","_","i","n",
      "_","o","u","t","s">>

UrlLogin ==
    <<"h","t","t","p","s",":","/","/","d","e","i","l","a","b","s",".","d","e","i",".","u",
      "n","i","p","d",".","i","t","/","S","h","i","b","b","o","l","e","t","h",".","s","s",
      "o","/","L","o","g","i","n">>

FragExpired ==
    <<"<","h","1",">","S","e","s","s","i","o","n"," ","E","x","p","i","r","e","d","<","/",
      "h","1",">">>

FragEntered ==
    <<"<","p",">","Y","o","u"," ","h","a","v","e"," ","e","n","t","e","r","e","d"," ","t",
      "h","e"," ","l","a","b","<","/","p",">">>

FragExit ==
    <<"<","b","u","t","t","o","n",">","E","x","i","t"," ","f","r","o","m"," ","l","a","b",
      "<","/","b","u","t","t","o","n",">">>

FragClosed ==
    <<"<","p",">","L","a","b","o","r","a","t","o","r","i","e","s"," ","c","l","o","s","e",
      "d","<","/","p",">">>

MsgNetInterrupt ==
    <<"P","a","g","e",".","g","o","t","o",":"," ","N","S","_","E","R","R","O","R","_","N",
      "E","T","_","I","N","T","E","R","R","U","P","T">>

MsgTimeoutExceeded ==
    <<"P","a","g","e",".","g","o","t","o",":"," ","T","i","m","e","o","u","t"," ","8","0",
      "0","0","m","s"," ","e","x","c","e","e","d","e","d",".">>

MsgProtocolError ==
    <<"P","a","g","e",".","g","o","t","o",":"," ","P","r","o","t","o","c","o","l"," ","e",
      "r","r","o","r">>

(***************************************************************************)
(* Bounds of the model.                                                     *)
(***************************************************************************)
\* DEILABS_NAV_RETRIES is drawn from 0..MaxNavRetries
MaxNavRetries == 2

\* a _wait_until call sleeps at most MaxPolls times before its deadline passes
MaxPolls == 1

\* the worker's shared browser is launched at most MaxLaunches times: once it has
\* been, it neither crashes nor is shut down again
MaxLaunches == 2

\* browser processes launched on the worker threads, in all, in SpecThreads
MaxBrowsers == 2

\* rows of status_events the bot writes before it stops taking commands
MaxEvents == 1

\* commands the bot handles one after the other in SpecCommands
MaxCommands == 2

\* session uploads the bot accepts before it stops taking documents
MaxUploads == 2

\* rows of status_events the midday job writes, in all, in SpecMidday
MaxChecks == 3

\* calls of update_current_status and reset_all_statuses, in all, in SpecDb
MaxCalls == 3

(***************************************************************************)
(* Program constants.                                                       *)
(***************************************************************************)
nav_retry_delay_ms == 700

LAB_SELECTORS == <<"select#lab", "select[name='lab']", "select">>

ENTER_BUTTON_SELECTORS ==
    <<"button:has-text('Enter')", "input[type=submit][value='Enter']", "button.btn-primary",
      "button[type='submit']">>

EXIT_BUTTON_SELECTORS ==
    <<"button:has-text('Exit from lab')", "input[type=submit][value^='Exit from lab']">>

\* DeilabsConfig.lab_name
DefaultLab == "DEI/A | 230 DEI/A"

UserIds == {"174325172"}

(***************************************************************************)
(* Pages.  page.url is one of two urls and page.content() a set of html     *)
(* fragments (markup separates them, so no marker spans two fragments);     *)
(* while the page is navigating, page.content() raises.                     *)
(***************************************************************************)
UrlNames == {"lab", "login"}

UrlText(u) == IF u = "lab" THEN LAB_IN_OUT_URL ELSE UrlLogin

FragmentNames == {"expired", "entered", "exit", "closed"}

FragmentText(f) ==
    CASE f = "expired" -> FragExpired
      [] f = "entered" -> FragEntered
      [] f = "exit" -> FragExit
      [] f = "closed" -> FragClosed

Pages ==
    [url : UrlNames, html : SUBSET FragmentNames, navigating : {FALSE}]
        \cup [url : UrlNames, html : {{}}, navigating : {TRUE}]

\* the page of a fresh context, before any goto
BlankPage == [url |-> "lab", html |-> {}, navigating |-> FALSE]

(***************************************************************************)
(* The page classifier.  Each predicate is the value the Python method      *)
(* returns; ExpiredRaises and ContentRaises say when its page.content()     *)
(* call raises instead.                                                     *)
(***************************************************************************)
\* the urls u with: "login" in u.lower() or "shibboleth" in u.lower()
ExpiredUrls ==
    {u \in UrlNames : \/ Contains(NeedleLogin, Lower(UrlText(u)))
                      \/ Contains(NeedleShibboleth, Lower(UrlText(u)))}

\* the fragments f with: "session expired" in f.lower() or "session seems to have
\* expired" in f.lower()
ExpiredFragments ==
    {f \in FragmentNames : \/ Contains(NeedleSessionExpired, Lower(FragmentText(f)))
                           \/ Contains(NeedleSeemsExpired, Lower(FragmentText(f)))}

\* the fragments f with: "You have entered the lab" in f or "Exit from lab" in f
InsideFragments ==
    {f \in FragmentNames : \/ Contains(NeedleEntered, FragmentText(f))
                           \/ Contains(NeedleExit, FragmentText(f))}

\* the fragments f with: "Laboratories close" in f or "Laboratories are closed at
\* this time" in f
ClosedFragments ==
    {f \in FragmentNames : \/ Contains(NeedleClose, FragmentText(f))
                           \/ Contains(NeedleClosedNow, FragmentText(f))}

_is_session_expired(p) == p.url \in ExpiredUrls \/ p.html \cap ExpiredFragments # {}

ExpiredRaises(p) == p.url \notin ExpiredUrls /\ p.navigating

_is_inside_lab(p) == p.html \cap InsideFragments # {}

_are_labs_closed(p) == p.html \cap ClosedFragments # {}

ContentRaises(p) == p.navigating

\* the value of the predicate called name on page p
Predicate(name, p) ==
    CASE name = "expired" -> _is_session_expired(p)
      [] name = "closed" -> _are_labs_closed(p)
      [] name = "inside" -> _is_inside_lab(p)

(***************************************************************************)
(* Navigation errors raised by page.goto.                                   *)
(***************************************************************************)
MsgText(m) ==
    CASE m = "net_interrupt" -> MsgNetInterrupt
      [] m = "timeout_exceeded" -> MsgTimeoutExceeded
      [] m = "protocol_error" -> MsgProtocolError

NavErrors ==
    { [type |-> "PlaywrightTimeoutError", msg |-> "timeout_exceeded"],
      [type |-> "PlaywrightError", msg |-> "net_interrupt"],
      [type |-> "PlaywrightError", msg |-> "protocol_error"] }

\* the messages m with: any(marker in m.lower() for marker in retry_markers)
RetryableMessages ==
    {m \in {"net_interrupt", "timeout_exceeded", "protocol_error"} :
        \E i \in 1..Len(retry_markers) : Contains(retry_markers[i], Lower(MsgText(m)))}

_is_retryable_navigation_error(exc) ==
    exc.type = "PlaywrightTimeoutError" \/ exc.msg \in RetryableMessages

(***************************************************************************)
(* State.                                                                   *)
(***************************************************************************)
VARIABLES
    authFile,   \* auth_<user_id>.json, the stored session blob: "absent" or "present"
    self,       \* the DeilabsClient the running operation was called on
    op,         \* the running operation, "none" when the worker is idle
    pc,         \* the worker's position in it
    context,    \* the browsing context of the operation: "none", "open", "closed"
    page,       \* what the live page shows now
    attempt,    \* _open_lab_page's loop variable
    gotoCalls,  \* page.goto calls made by the operation
    waits,      \* the page.wait_for_timeout(ms) sleeps of _open_lab_page, in order
    gotoErrors, \* per page.goto call that raised: was the error a retryable one
    lastGoto,   \* what the latest page.goto call raised, GotoOk if it loaded the page
    polls,      \* sleeps taken by the running _wait_until
    idx,        \* position of the running selector loop in its catalog
    seen,       \* classifier predicates the operation's decision consulted, in order
    calls,      \* the candidates tried by the selector loops, with how each went, in order
    fs,         \* whether screenshots/ can be created and written, once known
    snapshots,  \* tags of the debug snapshots written
    logs,       \* Logger.log events of the operation
    ret,        \* how the operation ended: returned message or raised exception
    prev,       \* what the caller keeps of the call before this one (SpecTwice only)
    browser,    \* the browser of the worker thread's shared runtime: "none" (no runtime
                \* yet), "up", "down" or "broken" (lost its connection) or "closed"
    launches,   \* launches of a shared browser by this worker thread
    runtimes,   \* length of DeilabsClient._runtimes
    logDisk,    \* whether logs/deilabs.log can be written during this call, once known
    procs,      \* every browser process launched on the worker threads (SpecThreads)
    _runtimes,  \* DeilabsClient._runtimes: the registered runtimes, as indexes of procs
    _thread_local, \* DeilabsClient._thread_local.runtime per thread, 0 for none
    session,    \* where each worker thread is in _session_page
    _runtime_lock, \* DeilabsClient._runtime_lock: the thread that holds it, or "free"
    _atexit_registered, \* DeilabsClient._atexit_registered
    _exithandlers, \* how many times atexit.register(shutdown_shared_browsers) was called
    frames,     \* where each thread is in _get_thread_runtime or in
                \* shutdown_shared_browsers (SpecRace), or in _wait_until (SpecWait),
                \* with its local variables
    db,         \* logs/deilabs.sqlite3: status_events, current_status, session_uploads
    effects,    \* what the bot's running handler has done so far, in order
    handler,    \* the bot's running handler: command, user, lab, position, result
    files       \* user_prefs.json, auth/ and uploads/ as the bot leaves them

vars ==
    <<authFile, self, op, pc, context, page, attempt, gotoCalls, waits, gotoErrors,
      lastGoto, polls, idx, seen, calls, fs, snapshots, logs, ret, prev, browser,
      launches, runtimes, logDisk, procs, _runtimes, _thread_local, session,
      _runtime_lock, _atexit_registered, _exithandlers, frames,
      db, effects, handler, files>>

\* groups of variables, for UNCHANGED
pool == <<browser, launches, runtimes>>

\* the runtime lock, the atexit hook and the threads' positions of SpecRace
sync == <<_runtime_lock, _atexit_registered, _exithandlers, frames>>

\* the worker threads of SpecThreads
threads == <<procs, _runtimes, _thread_local, session, sync>>

\* the Telegram bot of SpecBot
bot == <<db, effects, handler, files>>

\* what the single worker's operations never touch
elsewhere == <<threads, bot>>

outer == <<authFile, prev, pool, elsewhere>>

who == <<self, op, logDisk>>

nav == <<attempt, gotoCalls, waits, gotoErrors, lastGoto>>

snap == <<fs, snapshots>>

\* DeilabsClient(DeilabsConfig(user_id, lab_name, debug)) in a process whose
\* DEILABS_NAV_RETRIES is nav_retries and whose DEILABS_REUSE_BROWSER reads as reuse
DeilabsClient(user_id, lab_name, debug, nav_retries, reuse) ==
    [ user_id |-> user_id, lab_name |-> lab_name, debug |-> debug,
      nav_retries |-> IF nav_retries >= 0 THEN nav_retries ELSE 0,
      reuse_browser |-> reuse ]

NoClient ==
    [ user_id |-> "", lab_name |-> "", debug |-> FALSE, nav_retries |-> 0,
      reuse_browser |-> FALSE ]

\* no page.goto call has raised
GotoOk == [type |-> "none", msg |-> "ok"]

\* there is no call before this one
NoPrev ==
    [op |-> "none", seen |-> <<>>, clicks |-> 0, inside |-> FALSE, kind |-> "none", text |-> ""]

NoRet == [kind |-> "none", text |-> "", arg |-> ""]

Return(msg) == [kind |-> "return", text |-> msg.text, arg |-> msg.arg]

Raise(exc) == [kind |-> "raise", text |-> exc.msg, arg |-> exc.type]

\* what the file system does when Logger.log appends to logs/deilabs.log
LogDisks == {"ok", "mkdir_fails", "open_fails", "write_fails"}

\* a Logger.log whose handler catches nothing
LoggerLogUncaught(event, detail, disk) ==
    [ event |-> event, detail |-> detail,
      written |-> disk = "ok", warned |-> FALSE, escaped |-> disk # "ok" ]

\* Logger.log(event, ...): os.makedirs, open and f.write run inside the try and raise
\* OSError as disk says; except OSError prints the warning on stderr.  written: the
\* line is in the file; warned: the warning was printed; escaped: an exception left
\* Logger.log
LoggerLog(event, detail, disk) ==
    [ event |-> event, detail |-> detail,
      written |-> disk = "ok", warned |-> disk # "ok", escaped |-> FALSE ]

\* the calls of Logger.log so far and one more, on a disk that behaves as disk says
LogOn(disk, ls, event, detail) == Append(ls, LoggerLog(event, detail, disk))

\* Logger.log(event, ...) during the running call
Log(ls, event, detail) == LogOn(logDisk, ls, event, detail)

\* one more entry of the browser calls: candidate sel of its catalog was tried with api
\* (for select_option: looked up and, if present, selected) and worked or not
Call(cs, api, sel, ok) == Append(cs, [api |-> api, sel |-> sel, ok |-> ok])

Saw(name, value) == [pred |-> name, value |-> value]

(***************************************************************************)
(* Messages returned to the caller.                                         *)
(***************************************************************************)
\* the text of _session_expired_message, its two {user_id} fields left open (the
\* backquotes of the source are left out)
SessionExpiredText ==
    "Session expired: please login again with deilabs login --user-id {user_id}. If you use the Telegram bot, upload the refreshed auth_{user_id}.json file."

\* a session-expired message that does not say whose session it is
SessionExpiredAnonymous(c) ==
    [ text |-> SessionExpiredText,
      arg |-> "" ]

_session_expired_message(c) ==
    [ text |-> SessionExpiredText,
      arg |-> c.user_id ]

MsgLabsClosedPunch ==
    [ text |-> "Laboratories are currently closed. Presence cannot be logged at this time.",
      arg |-> "" ]

MsgAlreadyInside == [text |-> "You are already inside the lab. Nothing to do.", arg |-> ""]

MsgNoSelect(c) ==
    [text |-> "Could not find lab select element for {lab_name}.", arg |-> c.lab_name]

MsgNoEnterButton == [text |-> "Could not click Enter button.", arg |-> ""]

MsgEntered(c) ==
    [text |-> "Presence logged successfully for lab: {lab_name}", arg |-> c.lab_name]

MsgEnterUncertain ==
    [text |-> "Tried to log presence, but could not confirm success.", arg |-> ""]

MsgNotInLabClosed ==
    [text |-> "You are not in any lab and laboratories are currently closed.", arg |-> ""]

MsgNotInLab == [text |-> "You are not in any lab.", arg |-> ""]

MsgNoExitButton == [text |-> "Could not find Exit button.", arg |-> ""]

MsgLeaveUncertain ==
    [text |-> "Tried to leave lab, but status is uncertain (still appears inside).", arg |-> ""]

MsgExited == [text |-> "You have exited the lab.", arg |-> ""]

MsgStatusClosed == [text |-> "Laboratories are currently closed.", arg |-> ""]

\* the wording ensure_presence uses for the same finding
MsgStatusInsideAsPunch ==
    [text |-> "You are already inside the lab. Nothing to do.", arg |-> ""]

MsgStatusInside == [text |-> "You are already inside the lab.", arg |-> ""]

\* page.content() raised while the page was navigating
ContentError == [type |-> "PlaywrightError", msg |-> "page_is_navigating"]

\* firefox.launch (or sync_playwright().start()) failed
LaunchError == [type |-> "PlaywrightError", msg |-> "launch_failed"]

\* context.new_page() failed
NewPageError == [type |-> "PlaywrightError", msg |-> "new_page_failed"]

\* browser.new_context(storage_state=path) on a missing file
StorageStateError == [type |-> "PlaywrightError", msg |-> "no_storage_state_file"]

\* os.makedirs("screenshots") failed
MkdirError == [type |-> "OSError", msg |-> "cannot_create_screenshots_dir"]

NoDisplayError == [type |-> "RuntimeError", msg |-> "no_display"]

\* input() did not return: EOFError on a closed stdin (KeyboardInterrupt likewise)
InputError == [type |-> "EOFError", msg |-> "EOF when reading a line"]

\* the worker threads of the bot's executor
Threads == {"w1", "w2"}

\* the threads that can call the class methods: the workers and the main thread,
\* on which the atexit hook runs
Actors == Threads \cup {"main"}

\* a thread that is in neither method: runtime is the local of _get_thread_runtime
\* (an index of procs, 0 for none), runtimes the local list of
\* shutdown_shared_browsers
NoFrame == [pc |-> "idle", runtime |-> 0, runtimes |-> <<>>]

\* a thread that is not inside _session_page
NoSession == [at |-> "idle", on |-> 0, reuse |-> FALSE, uid |-> ""]

\* no thread has run anything yet: no browser process, an empty registry
NoThreads ==
    /\ procs = <<>> /\ _runtimes = <<>>
    /\ _thread_local = [t \in Threads |-> 0]
    /\ session = [t \in Threads |-> NoSession]
    /\ _runtime_lock = "free" /\ _atexit_registered = FALSE /\ _exithandlers = 0
    /\ frames = [a \in Actors |-> NoFrame]

\* ---- who talks to the bot ----
\* the Telegram users that send updates; ADMIN_USER_IDS holds the first only
Callers == {"174325172", "42"}

ADMIN_USER_IDS == {"174325172"}

\* a user id `deilabs setlab --user-id` was given on the command line: any string
CliUsers == {"alice"}

AllUsers == Callers \cup CliUsers

\* the labs a user can have saved: prefs.DEFAULT_LAB and another one
Labs == {DefaultLab, "LAB-X"}

\* Optional[bool] and Optional[str]: None
None == "None"

\* ---- state of the bot ----
\* a row of the table current_status (updated_at is left out)
Row(user_id, username, status, lab_name, last_entered_at) ==
    [ user_id |-> user_id, username |-> username, status |-> status,
      lab_name |-> lab_name, last_entered_at |-> last_entered_at ]

\* what a SELECT for a user without a row gives
NoRow == Row("", None, None, None, None)

\* SELECT * FROM current_status WHERE user_id = u
RowsOf(d, u) == SelectSeq(d.current_status, LAMBDA r : r.user_id = u)

\* the row of user u, if there is one
RowOf(d, u) == IF RowsOf(d, u) = <<>> THEN NoRow ELSE RowsOf(d, u)[1]

\* user.username of the Telegram users: one of them has none
Username(uid) == IF uid = "174325172" THEN "aidin" ELSE None

\* logs/deilabs.sqlite3 after init_db() and nothing else
EmptyDb ==
    [ status_events |-> <<>>,
      current_status |-> <<>>,
      session_uploads |-> <<>> ]

\* no handler is running
NoHandler ==
    [ cmd |-> "none", uid |-> "", lab |-> "", at |-> "idle", out |-> NoRet,
      counts |-> [total |-> 0, sent |-> 0, failed |-> 0, skipped |-> 0] ]

\* the bot has just started on an empty data directory
NoBot ==
    /\ db = EmptyDb
    /\ effects = <<>>
    /\ handler = NoHandler
    /\ files = [ prefs |-> [u \in AllUsers |-> None],
                auth |-> [u \in Callers |-> "absent"],
                bak |-> [u \in Callers |-> "absent"],
                audit |-> [uid |-> "", name |-> "absent"] ]

(***************************************************************************)
(* Initial state: an idle worker, nobody logged in yet.                     *)
(***************************************************************************)
Init ==
    /\ authFile = "absent"
    /\ self = NoClient /\ op = "none" /\ pc = "idle" /\ context = "none"
    /\ page = BlankPage /\ attempt = 0 /\ gotoCalls = 0 /\ waits = <<>>
    /\ gotoErrors = <<>> /\ lastGoto = GotoOk /\ prev = NoPrev
    /\ polls = 0 /\ idx = 0 /\ seen = <<>> /\ calls = <<>> /\ fs = "unknown"
    /\ snapshots = <<>> /\ logs = <<>> /\ ret = NoRet
    /\ browser = "none" /\ launches = 0 /\ runtimes = 0 /\ logDisk = "unknown"
    /\ NoThreads
    /\ NoBot

(***************************************************************************)
(* Debug snapshots: save_state(page, tag).  os.makedirs is outside the try, *)
(* so its failure raises; a failing screenshot, file write or               *)
(* page.content() is caught and logged.                                     *)
(***************************************************************************)
FsOutcomes == {"ok", "write_fails", "mkdir_fails"}

\* what the file system does for this operation: fixed at its first snapshot
FsChoices == IF fs = "unknown" THEN FsOutcomes ELSE {fs}

SaveStateRaises(e) == e = "mkdir_fails"

SaveStateWrites(e, p) == e = "ok" /\ ~p.navigating

\* the snapshots after save_state(p, tag)
SavedSnapshots(snaps, tag, e, p) ==
    IF SaveStateWrites(e, p) THEN Append(snaps, tag) ELSE snaps

\* the log after save_state(p, tag)
SavedLogs(ls, tag, e, p) ==
    IF SaveStateRaises(e) THEN ls
    ELSE IF SaveStateWrites(e, p) THEN Log(ls, "save_state", tag)
    ELSE Log(ls, "save_state_error", tag)

(***************************************************************************)
(* The operations' shared prelude.                                          *)
(***************************************************************************)
Operations == {"ensure_presence", "leave_lab", "get_status"}

StartEvent(o) ==
    CASE o = "ensure_presence" -> "ensure_presence_start"
      [] o = "leave_lab" -> "leave_start"
      [] o = "get_status" -> "status_start"

\* a caller builds a client and calls one of ops on it, in a process whose
\* DEILABS_NAV_RETRIES is in retries and whose DEILABS_REUSE_BROWSER reads as one of
\* reuses, with debug in debugs, while the log file behaves as one of disks
Call_operation(ops, retries, debugs, reuses, disks) ==
    /\ pc = "idle"
    /\ \E o \in ops, uid \in UserIds, r \in retries, reuse \in reuses, d \in disks :
       \E dbg \in (IF o = "ensure_presence" THEN debugs ELSE {FALSE}) :
        /\ op' = o
        /\ self' = DeilabsClient(uid, DefaultLab, dbg, r, reuse)
        /\ logDisk' = d
        /\ logs' = LogOn(d, <<>>, StartEvent(o), "")
    /\ pc' = "session_page"
    /\ UNCHANGED <<outer, context, page, nav, polls, idx, seen, calls, snap, ret>>

\* the callers of cli.py:105-130 and bot.py:304-319; only `deilabs punch --debug`
\* sets debug; DEILABS_REUSE_BROWSER is left unset and the log file can be written
StartOp == Call_operation(Operations, 0..MaxNavRetries, BOOLEAN, {TRUE}, {"ok"})

\* a _get_thread_runtime that hands out whatever runtime the thread has cached
RuntimeIsCached(b) == b # "none"

\* _get_thread_runtime's test of the cached runtime: there is one, and its browser
\* answers is_connected() with True; an is_connected() that raises is swallowed and
\* counts as not connected
RuntimeIsUsable(b) == b = "up"

\* _session_page up to the yield.  With reuse_browser, _get_thread_runtime hands out
\* the thread's browser if it is connected and else launches one and registers it;
\* without, a browser of the call's own is launched inside `with sync_playwright()`.
\* Then a fresh context is made from the stored session, and a page in it.  The
\* launch and context.new_page() fail when the environment has them fail.  Nothing
\* closes the context when new_page raises; without reuse_browser the exit of
\* `with sync_playwright()` stops the driver, and the browser and its contexts with it.
SessionPageEnter ==
    /\ pc = "session_page"
    /\ \E launch_ok \in BOOLEAN, page_ok \in BOOLEAN :
        LET connected == self.reuse_browser /\ RuntimeIsUsable(browser)
        IN  /\ IF self.reuse_browser /\ ~connected /\ launch_ok
               THEN /\ browser' = "up"
                    /\ launches' = launches + 1
                    /\ runtimes' = runtimes + 1
               ELSE UNCHANGED pool
            /\ IF ~connected /\ ~launch_ok
               THEN /\ ret' = Raise(LaunchError)
                    /\ pc' = "done"
                    /\ UNCHANGED <<context, page, attempt>>
               ELSE IF authFile = "absent"
               THEN /\ ret' = Raise(StorageStateError)
                    /\ pc' = "done"
                    /\ UNCHANGED <<context, page, attempt>>
               ELSE IF ~page_ok
               THEN /\ ret' = Raise(NewPageError)
                    /\ context' = IF self.reuse_browser THEN "open" ELSE "closed"
                    /\ pc' = "done"
                    /\ UNCHANGED <<page, attempt>>
               ELSE /\ context' = "open"
                    /\ page' = BlankPage
                    /\ attempt' = 1
                    /\ pc' = "open_lab_page"
                    /\ ret' = ret
    /\ UNCHANGED <<authFile, prev, elsewhere, who, gotoCalls, waits, gotoErrors, lastGoto,
                   polls, idx, seen, calls, snap, logs>>

\* a retry condition that retries whatever the error is
ShouldRetryAnyError(exc, n, attempts) == n < attempts

\* a retry condition that allows one attempt too many
ShouldRetryOnceMore(exc, n, attempts) ==
    _is_retryable_navigation_error(exc) /\ n <= attempts

\* the condition of _open_lab_page's retry: a retryable error and attempts left
ShouldRetry(exc, n, attempts) == _is_retryable_navigation_error(exc) /\ n < attempts

\* a backoff that does not grow with the attempt
RetryDelayFlat(n) == nav_retry_delay_ms

\* the backoff before attempt n + 1
RetryDelay(n) == nav_retry_delay_ms * n

\* one turn of _open_lab_page's loop: a page.goto that loads some page or raises
_open_lab_page ==
    /\ pc = "open_lab_page"
    /\ gotoCalls' = gotoCalls + 1
    /\ LET attempts == self.nav_retries + 1
       IN  \/ \E p \in Pages :
                /\ page' = p
                /\ lastGoto' = GotoOk
                /\ pc' = "wait_page_ready"
                /\ UNCHANGED <<attempt, waits, gotoErrors, logs, ret>>
           \/ \E exc \in NavErrors :
                /\ gotoErrors' = Append(gotoErrors, _is_retryable_navigation_error(exc))
                /\ lastGoto' = exc
                /\ IF ShouldRetry(exc, attempt, attempts)
                   THEN /\ logs' = Log(logs, "lab_page_retry", "")
                        /\ waits' = Append(waits, RetryDelay(attempt))
                        /\ attempt' = attempt + 1
                        /\ UNCHANGED <<page, pc, ret>>
                   ELSE /\ ret' = Raise(exc)
                        /\ pc' = "exit_page"
                        /\ UNCHANGED <<page, attempt, waits, logs>>
    /\ UNCHANGED <<outer, who, context, polls, idx, seen, calls, snap>>

(***************************************************************************)
(* _wait_until: one turn of the polling loop.  The clock is the             *)
(* environment's: the deadline passes after MaxPolls sleeps at the latest,  *)
(* and at once when timeout_ms is 0.  Before the deadline a true predicate  *)
(* ends the wait and a false (or raising) one sleeps poll_interval_ms,      *)
(* during which the live page may change; past the deadline the predicate   *)
(* is evaluated once more and the wait ends.  No caller uses the returned   *)
(* value.                                                                   *)
(***************************************************************************)
\* a polling loop that has no deadline
_wait_until_no_deadline(predicate, next) ==
    IF ~predicate
    THEN /\ polls' = polls
         /\ \E p \in Pages : page' = p
         /\ pc' = pc
    ELSE /\ polls' = 0
         /\ page' = page
         /\ pc' = next

_wait_until(predicate, next) ==
    \E before_deadline \in (IF polls < MaxPolls THEN BOOLEAN ELSE {FALSE}) :
        IF before_deadline /\ ~predicate
        THEN /\ polls' = polls + 1
             /\ \E p \in Pages : page' = p
             /\ pc' = pc
        ELSE /\ polls' = 0
             /\ page' = page
             /\ pc' = next

\* ready() of _wait_for_page_ready; present: the LAB_SELECTORS candidates that
\* page.query_selector finds.  An exception of page.content() ends ready() and
\* _wait_until takes it as false.
ready(p, present) ==
    IF ExpiredRaises(p) THEN FALSE
    ELSE IF _is_session_expired(p) THEN TRUE
    ELSE IF ContentRaises(p) THEN FALSE
    ELSE IF _are_labs_closed(p) THEN TRUE
    ELSE IF _is_inside_lab(p) THEN TRUE
    ELSE \E i \in 1..Len(LAB_SELECTORS) : i \in present

_wait_for_page_ready ==
    /\ pc = "wait_page_ready"
    /\ \E present \in SUBSET (1..Len(LAB_SELECTORS)) :
         _wait_until(ready(page, present), "classify")
    /\ UNCHANGED <<outer, who, context, nav, idx, seen, calls, snap, logs, ret>>

\* what the decision of an operation read: the predicates called names, in order,
\* with the values they returned on page p
Seen(names, p) == [i \in 1..Len(names) |-> Saw(names[i], Predicate(names[i], p))]

(***************************************************************************)
(* get_status                                                               *)
(***************************************************************************)
\* a get_status that tests inside before closed
StatusBranchInsideFirst(p) ==
    IF ExpiredRaises(p) THEN "raise_expired"
    ELSE IF _is_session_expired(p) THEN "expired"
    ELSE IF ContentRaises(p) THEN "raise_closed"
    ELSE IF _is_inside_lab(p) THEN "inside"
    ELSE IF _are_labs_closed(p) THEN "closed"
    ELSE "outside"

\* a get_status that never asks whether the labs are closed
StatusBranchNoClosed(p) ==
    IF ExpiredRaises(p) THEN "raise_expired"
    ELSE IF _is_session_expired(p) THEN "expired"
    ELSE IF ContentRaises(p) THEN "raise_closed"
    ELSE IF _is_inside_lab(p) THEN "inside"
    ELSE "outside"

\* the if-chain of get_status on page p: which branch it takes
StatusBranch(p) ==
    IF ExpiredRaises(p) THEN "raise_expired"
    ELSE IF _is_session_expired(p) THEN "expired"
    ELSE IF ContentRaises(p) THEN "raise_closed"
    ELSE IF _are_labs_closed(p) THEN "closed"
    ELSE IF _is_inside_lab(p) THEN "inside"
    ELSE "outside"

\* the predicates a branch of get_status or ensure_presence has called, in order
ConsultedClosedFirst(b) ==
    CASE b = "raise_expired" -> <<>>
      [] b \in {"expired", "raise_closed"} -> <<"expired">>
      [] b = "closed" -> <<"expired", "closed">>
      [] b \in {"inside", "outside"} -> <<"expired", "closed", "inside">>

\* a get_status that takes the debug snapshot ensure_presence takes
get_status_with_snapshot ==
    /\ pc = "classify" /\ op = "get_status"
    /\ pc' = "exit_page"
    /\ seen' = Seen(ConsultedClosedFirst(StatusBranch(page)), page)
    /\ snapshots' = Append(snapshots, "status")
    /\ fs' = "ok"
    /\ logs' = Log(logs, "status_result", "")
    /\ ret' = Return(MsgNotInLab)
    /\ UNCHANGED <<outer, who, context, page, nav, polls, idx, calls>>

get_status ==
    /\ pc = "classify" /\ op = "get_status"
    /\ pc' = "exit_page"
    /\ LET b == StatusBranch(page)
       IN  /\ seen' = Seen(ConsultedClosedFirst(b), page)
           /\ CASE b \in {"raise_expired", "raise_closed"} ->
                    /\ ret' = Raise(ContentError)
                    /\ logs' = logs
                [] b = "expired" ->
                    /\ logs' = Log(logs, "status_session_expired", "")
                    /\ ret' = Return(_session_expired_message(self))
                [] b = "closed" ->
                    /\ logs' = Log(logs, "status_labs_closed", "")
                    /\ ret' = Return(MsgStatusClosed)
                [] b = "inside" ->
                    /\ logs' = Log(logs, "status_result", "")
                    /\ ret' = Return(MsgStatusInside)
                [] b = "outside" ->
                    /\ logs' = Log(logs, "status_result", "")
                    /\ ret' = Return(MsgNotInLab)
    /\ UNCHANGED <<outer, who, context, page, nav, polls, idx, calls, snap>>

(***************************************************************************)
(* ensure_presence                                                          *)
(***************************************************************************)
\* an ensure_presence that never asks whether the user is inside
EnsureBranchNoInside(p) ==
    IF ExpiredRaises(p) THEN "raise_expired"
    ELSE IF _is_session_expired(p) THEN "expired"
    ELSE IF ContentRaises(p) THEN "raise_closed"
    ELSE IF _are_labs_closed(p) THEN "closed"
    ELSE "outside"

\* an ensure_presence that tests inside before closed
EnsureBranchInsideFirst(p) ==
    IF ExpiredRaises(p) THEN "raise_expired"
    ELSE IF _is_session_expired(p) THEN "expired"
    ELSE IF ContentRaises(p) THEN "raise_closed"
    ELSE IF _is_inside_lab(p) THEN "inside"
    ELSE IF _are_labs_closed(p) THEN "closed"
    ELSE "outside"

\* the if-chain of ensure_presence on page p: which branch it takes
EnsureBranch(p) ==
    IF ExpiredRaises(p) THEN "raise_expired"
    ELSE IF _is_session_expired(p) THEN "expired"
    ELSE IF ContentRaises(p) THEN "raise_closed"
    ELSE IF _are_labs_closed(p) THEN "closed"
    ELSE IF _is_inside_lab(p) THEN "inside"
    ELSE "outside"

\* ensure_presence after the page is ready: the debug snapshot, the decision
\* (expired, closed, inside, else enter) and, on the paths that end here, the return
ensure_presence ==
    /\ pc = "classify" /\ op = "ensure_presence"
    /\ UNCHANGED <<outer, who, context, page, nav, polls, calls>>
    /\ \E e \in (IF self.debug THEN FsChoices ELSE {fs}) :
        LET b == EnsureBranch(page)
            ls0 == Log(logs, "page_loaded", "")
            ls1 == IF self.debug THEN SavedLogs(ls0, "before", e, page) ELSE ls0
            sn1 == IF self.debug THEN SavedSnapshots(snapshots, "before", e, page)
                   ELSE snapshots
        IN  /\ fs' = e
            /\ IF self.debug /\ SaveStateRaises(e)
               THEN /\ ret' = Raise(MkdirError)
                    /\ logs' = ls0
                    /\ pc' = "exit_page"
                    /\ UNCHANGED <<seen, snapshots, idx>>
               ELSE /\ seen' = Seen(ConsultedClosedFirst(b), page)
                    /\ CASE b \in {"raise_expired", "raise_closed"} ->
                             /\ ret' = Raise(ContentError)
                             /\ logs' = ls1 /\ snapshots' = sn1
                             /\ pc' = "exit_page" /\ idx' = idx
                         [] b = "expired" ->
                             /\ logs' = Log(ls1, "session_expired", "") /\ snapshots' = sn1
                             /\ ret' = Return(_session_expired_message(self))
                             /\ pc' = "exit_page" /\ idx' = idx
                         [] b = "closed" ->
                             /\ logs' = Log(ls1, "labs_closed", "") /\ snapshots' = sn1
                             /\ ret' = Return(MsgLabsClosedPunch)
                             /\ pc' = "exit_page" /\ idx' = idx
                         [] b = "inside" ->
                             /\ logs' = IF self.debug
                                        THEN SavedLogs(Log(ls1, "already_inside", ""),
                                                       "after", e, page)
                                        ELSE Log(ls1, "already_inside", "")
                             /\ snapshots' = IF self.debug
                                             THEN SavedSnapshots(sn1, "after", e, page)
                                             ELSE sn1
                             /\ ret' = Return(MsgAlreadyInside)
                             /\ pc' = "exit_page" /\ idx' = idx
                         [] b = "outside" ->
                             /\ logs' = ls1 /\ snapshots' = sn1
                             /\ pc' = "enter_lab" /\ idx' = 1
                             /\ ret' = ret

\* _enter_lab returns msg, after save_state(page, tag) unless tag is "none"; then
\* ensure_presence logs it, takes the debug snapshot and returns.  A save_state that
\* raises lands in ensure_presence's except branch, whose own save_state raises again.
EnterLabReturns(ls, msg, tag) ==
    /\ pc' = "exit_page"
    /\ \E e \in (IF tag = "none" THEN {fs} ELSE FsChoices) :
        /\ fs' = e
        /\ IF tag # "none" /\ SaveStateRaises(e)
           THEN /\ logs' = Log(ls, "enter_lab_error", "")
                /\ snapshots' = snapshots
                /\ ret' = Raise(MkdirError)
           ELSE LET ls1 == IF tag = "none" THEN ls ELSE SavedLogs(ls, tag, e, page)
                    sn1 == IF tag = "none" THEN snapshots
                           ELSE SavedSnapshots(snapshots, tag, e, page)
                    ls2 == Log(ls1, "enter_lab", "")
                IN  /\ logs' = IF self.debug THEN SavedLogs(ls2, "after", e, page) ELSE ls2
                    /\ snapshots' = IF self.debug THEN SavedSnapshots(sn1, "after", e, page)
                                    ELSE sn1
                    /\ ret' = Return(msg)

\* _enter_lab raises exc: ensure_presence's except branch logs it, snapshots and
\* re-raises
EnterLabRaises(exc) ==
    /\ pc' = "exit_page"
    /\ \E e \in FsChoices :
        /\ fs' = e
        /\ logs' = SavedLogs(Log(logs, "enter_lab_error", ""), "enter_error", e, page)
        /\ snapshots' = SavedSnapshots(snapshots, "enter_error", e, page)
        /\ ret' = IF SaveStateRaises(e) THEN Raise(MkdirError) ELSE Raise(exc)

\* one turn of _enter_lab's loop over LAB_SELECTORS: the candidate is absent
\* (query_selector is None), query_selector or select_option raises, or the lab is
\* selected
_enter_lab_select ==
    /\ pc = "enter_lab"
    /\ UNCHANGED <<outer, who, context, page, nav, polls, seen>>
    /\ \E outcome \in {"absent", "error", "ok"} :
        IF outcome = "ok"
        THEN /\ calls' = Call(calls, "select_option", idx, TRUE)
             /\ logs' = Log(logs, "select_lab", LAB_SELECTORS[idx])
             /\ pc' = "enter_click"
             /\ idx' = 1
             /\ UNCHANGED <<snap, ret>>
        ELSE /\ calls' = Call(calls, "select_option", idx, FALSE)
             /\ IF idx < Len(LAB_SELECTORS)
                THEN /\ idx' = idx + 1
                     /\ UNCHANGED <<pc, snap, logs, ret>>
                ELSE /\ EnterLabReturns(logs, MsgNoSelect(self), "no_select")
                     /\ idx' = idx

\* a turn of a button loop that never gets to its break
ReachesBreakNever(ok, ls) == FALSE

\* whether a turn of a button loop gets to `clicked = True; break`: page.click did
\* not raise, and neither did the Logger.log after it, which is inside the same
\* try; ls is the log with that entry
ReachesBreak(ok, ls) == ok /\ ~ls[Len(ls)].escaped

\* one turn of _enter_lab's loop over ENTER_BUTTON_SELECTORS: page.click raises or
\* clicks; the click makes the portal serve whatever it serves next.  A turn that
\* does not get to the break goes on with the next candidate (except Exception:
\* continue).
_enter_lab_click ==
    /\ pc = "enter_click"
    /\ UNCHANGED <<outer, who, context, nav, seen>>
    /\ \E ok \in BOOLEAN :
        LET logged == IF ok THEN Log(logs, "click_enter", ENTER_BUTTON_SELECTORS[idx])
                      ELSE logs
        IN  /\ calls' = Call(calls, "click", idx, ok)
            /\ IF ok THEN \E p \in Pages : page' = p ELSE page' = page
            /\ IF ReachesBreak(ok, logged)
               THEN /\ logs' = logged
                    /\ pc' = "wait_entered"
                    /\ polls' = 0
                    /\ UNCHANGED <<idx, snap, ret>>
               ELSE IF idx < Len(ENTER_BUTTON_SELECTORS)
               THEN /\ idx' = idx + 1
                    /\ logs' = logged
                    /\ UNCHANGED <<pc, polls, snap, ret>>
               ELSE /\ EnterLabReturns(logged, MsgNoEnterButton, "no_enter_button")
                    /\ UNCHANGED <<idx, polls>>

\* lambda: self._is_inside_lab(page) or self._is_session_expired(page)
EnteredOrExpired(p) ==
    IF ContentRaises(p) THEN FALSE ELSE _is_inside_lab(p) \/ _is_session_expired(p)

_enter_lab_wait ==
    /\ pc = "wait_entered"
    /\ _wait_until(EnteredOrExpired(page), "enter_recheck")
    /\ UNCHANGED <<outer, who, context, nav, idx, seen, calls, snap, logs, ret>>

\* a re-check with its test inverted
_enter_lab_recheck_inverted ==
    /\ pc = "enter_recheck"
    /\ UNCHANGED <<outer, who, context, page, nav, polls, idx, seen, calls>>
    /\ IF ContentRaises(page) THEN EnterLabRaises(ContentError)
       ELSE IF ~_is_inside_lab(page) THEN EnterLabReturns(logs, MsgEntered(self), "none")
       ELSE EnterLabReturns(logs, MsgEnterUncertain, "enter_uncertain")

\* the end of _enter_lab: the re-check that decides between success and uncertain
_enter_lab_recheck ==
    /\ pc = "enter_recheck"
    /\ UNCHANGED <<outer, who, context, page, nav, polls, idx, seen, calls>>
    /\ IF ContentRaises(page) THEN EnterLabRaises(ContentError)
       ELSE IF _is_inside_lab(page) THEN EnterLabReturns(logs, MsgEntered(self), "none")
       ELSE EnterLabReturns(logs, MsgEnterUncertain, "enter_uncertain")

(***************************************************************************)
(* leave_lab                                                                *)
(***************************************************************************)
\* a leave_lab that goes for the exit button without asking whether the user is inside
LeaveBranchNoInside(p) ==
    IF ExpiredRaises(p) THEN "raise_expired"
    ELSE IF _is_session_expired(p) THEN "expired"
    ELSE IF ContentRaises(p) THEN "raise_inside"
    ELSE "inside"

\* the if-chain of leave_lab on page p: which branch it takes
LeaveBranch(p) ==
    IF ExpiredRaises(p) THEN "raise_expired"
    ELSE IF _is_session_expired(p) THEN "expired"
    ELSE IF ContentRaises(p) THEN "raise_inside"
    ELSE IF ~_is_inside_lab(p) THEN "not_inside"
    ELSE "inside"

\* the predicates a branch of leave_lab has called, in order
ConsultedInsideFirst(b) ==
    CASE b = "raise_expired" -> <<>>
      [] b \in {"expired", "raise_inside"} -> <<"expired">>
      [] b = "not_inside" -> <<"expired", "inside", "closed">>
      [] b = "inside" -> <<"expired", "inside">>

\* leave_lab after the page is ready: the decision (expired, not inside, else exit)
leave_lab ==
    /\ pc = "classify" /\ op = "leave_lab"
    /\ UNCHANGED <<outer, who, context, page, nav, polls, calls, snap>>
    /\ LET b == LeaveBranch(page)
       IN  /\ seen' = Seen(ConsultedInsideFirst(b), page)
           /\ CASE b \in {"raise_expired", "raise_inside"} ->
                    /\ ret' = Raise(ContentError)
                    /\ pc' = "exit_page"
                    /\ UNCHANGED <<logs, idx>>
                [] b = "expired" ->
                    /\ logs' = Log(logs, "leave_session_expired", "")
                    /\ ret' = Return(_session_expired_message(self))
                    /\ pc' = "exit_page" /\ idx' = idx
                [] b = "not_inside" ->
                    /\ logs' = Log(logs, "leave_not_inside", "")
                    /\ ret' = Return(IF _are_labs_closed(page) THEN MsgNotInLabClosed
                                     ELSE MsgNotInLab)
                    /\ pc' = "exit_page" /\ idx' = idx
                [] b = "inside" ->
                    /\ pc' = "exit_click" /\ idx' = 1
                    /\ UNCHANGED <<logs, ret>>

\* leave_lab returns msg after save_state(page, tag) (unless tag is "none") and a log
\* entry; a save_state that raises ends leave_lab with its exception
LeaveLabReturnsAfter(ls, msg, tag, event) ==
    /\ pc' = "exit_page"
    /\ \E e \in (IF tag = "none" THEN {fs} ELSE FsChoices) :
        /\ fs' = e
        /\ IF tag # "none" /\ SaveStateRaises(e)
           THEN /\ ret' = Raise(MkdirError)
                /\ logs' = ls
                /\ UNCHANGED snapshots
           ELSE /\ logs' = Log(IF tag = "none" THEN ls ELSE SavedLogs(ls, tag, e, page),
                               event, "")
                /\ snapshots' = IF tag = "none" THEN snapshots
                                ELSE SavedSnapshots(snapshots, tag, e, page)
                /\ ret' = Return(msg)

\* the same when nothing was logged since the step began
LeaveLabReturns(msg, tag, event) == LeaveLabReturnsAfter(logs, msg, tag, event)

\* a loop over EXIT_BUTTON_SELECTORS without its break: it goes on to the candidates
\* after the one that worked
_leave_lab_click_all ==
    /\ pc = "exit_click"
    /\ UNCHANGED <<outer, who, context, nav, seen, polls, snap, ret>>
    /\ \E ok \in BOOLEAN :
        /\ calls' = Call(calls, "click", idx, ok)
        /\ logs' = IF ok THEN Log(logs, "click_exit", EXIT_BUTTON_SELECTORS[idx]) ELSE logs
        /\ IF ok THEN \E p \in Pages : page' = p ELSE page' = page
        /\ IF idx < Len(EXIT_BUTTON_SELECTORS)
           THEN idx' = idx + 1 /\ pc' = pc
           ELSE idx' = idx /\ pc' = "wait_left"

\* one turn of leave_lab's loop over EXIT_BUTTON_SELECTORS, which is built as the
\* loop of _enter_lab is
_leave_lab_click ==
    /\ pc = "exit_click"
    /\ UNCHANGED <<outer, who, context, nav, seen>>
    /\ \E ok \in BOOLEAN :
        LET logged == IF ok THEN Log(logs, "click_exit", EXIT_BUTTON_SELECTORS[idx])
                      ELSE logs
        IN  /\ calls' = Call(calls, "click", idx, ok)
            /\ IF ok THEN \E p \in Pages : page' = p ELSE page' = page
            /\ IF ReachesBreak(ok, logged)
               THEN /\ logs' = logged
                    /\ pc' = "wait_left"
                    /\ polls' = 0
                    /\ UNCHANGED <<idx, snap, ret>>
               ELSE IF idx < Len(EXIT_BUTTON_SELECTORS)
               THEN /\ idx' = idx + 1
                    /\ logs' = logged
                    /\ UNCHANGED <<pc, polls, snap, ret>>
               ELSE /\ LeaveLabReturnsAfter(logged, MsgNoExitButton, "no_exit_button",
                                            "leave_no_button")
                    /\ UNCHANGED <<idx, polls>>

\* lambda: (not self._is_inside_lab(page)) or self._is_session_expired(page)
LeftOrExpired(p) ==
    IF ContentRaises(p) THEN FALSE ELSE ~_is_inside_lab(p) \/ _is_session_expired(p)

_leave_lab_wait ==
    /\ pc = "wait_left"
    /\ _wait_until(LeftOrExpired(page), "leave_recheck")
    /\ UNCHANGED <<outer, who, context, nav, idx, seen, calls, snap, logs, ret>>

\* the end of leave_lab: the double-check that decides between left and uncertain
_leave_lab_recheck ==
    /\ pc = "leave_recheck"
    /\ UNCHANGED <<outer, who, context, page, nav, polls, idx, seen, calls>>
    /\ IF ContentRaises(page)
       THEN /\ ret' = Raise(ContentError)
            /\ pc' = "exit_page"
            /\ UNCHANGED <<snap, logs>>
       ELSE IF _is_inside_lab(page)
       THEN LeaveLabReturns(MsgLeaveUncertain, "exit_uncertain", "leave_result")
       ELSE LeaveLabReturns(MsgExited, "none", "leave_result")

(***************************************************************************)
(* Leaving the with-block and returning to the caller.                      *)
(***************************************************************************)
\* a finally that closes the browser in both modes
SessionPageExitClosingBrowser ==
    /\ pc = "exit_page"
    /\ context' = "closed"
    /\ browser' = IF self.reuse_browser THEN "closed" ELSE browser
    /\ pc' = "done"
    /\ UNCHANGED <<authFile, prev, elsewhere, launches, runtimes, who, page, nav, polls,
                   idx, seen, calls, snap, logs, ret>>

\* _session_page after the yield: finally: context.close() with reuse_browser, and
\* browser.close() of the call's own browser without
SessionPageExit ==
    /\ pc = "exit_page"
    /\ context' = "closed"
    /\ pc' = "done"
    /\ UNCHANGED <<outer, who, page, nav, polls, idx, seen, calls, snap, logs, ret>>

\* the worker is idle again: the client, its page and its call records are garbage
Idle ==
    /\ self' = NoClient /\ op' = "none" /\ pc' = "idle" /\ context' = "none"
    /\ page' = BlankPage /\ attempt' = 0 /\ gotoCalls' = 0 /\ waits' = <<>>
    /\ gotoErrors' = <<>> /\ lastGoto' = GotoOk
    /\ polls' = 0 /\ idx' = 0 /\ seen' = <<>> /\ calls' = <<>> /\ fs' = "unknown"
    /\ snapshots' = <<>> /\ logs' = <<>> /\ ret' = NoRet /\ logDisk' = "unknown"

\* the caller has the result
Finish ==
    /\ pc = "done"
    /\ Idle
    /\ UNCHANGED outer

(***************************************************************************)
(* interactive_login: the one writer of the session blob.                   *)
(***************************************************************************)
\* an interactive_login that saves the session as soon as the window is open
SavesSessionUnconfirmed(display, confirmed) == display

\* whether interactive_login gets to context.storage_state(path=...): not when the
\* DISPLAY check raised, nor when input() raised (EOF on stdin, Ctrl-C) instead of
\* returning the ENTER of the user
SavesSession(display, confirmed) == display /\ confirmed

interactive_login ==
    /\ pc = "idle"
    /\ op' = "interactive_login"
    /\ pc' = "done"
    /\ \E uid \in UserIds, display \in BOOLEAN, confirmed \in BOOLEAN, d \in LogDisks :
        LET opened == LogOn(d, LogOn(d, <<>>, "interactive_login_start", ""),
                            "interactive_login", "")
            asked  == Call(<<>>, "input", 0, confirmed)
        IN  /\ self' = DeilabsClient(uid, DefaultLab, TRUE, 0, TRUE)
            /\ logDisk' = d
            /\ IF ~display
               THEN /\ logs' = LogOn(d, <<>>, "interactive_login_error", "")
                    /\ ret' = Raise(NoDisplayError)
                    /\ UNCHANGED gotoCalls
               ELSE /\ logs' = IF confirmed
                               THEN LogOn(d, opened, "interactive_login_done", "")
                               ELSE opened
                    /\ gotoCalls' = 1
                    /\ ret' = IF confirmed THEN Return([text |-> "", arg |-> ""])
                              ELSE Raise(InputError)
            /\ calls' = IF ~display THEN calls
                        ELSE IF SavesSession(display, confirmed)
                        THEN Call(asked, "storage_state", 0, TRUE)
                        ELSE asked
            /\ authFile' = IF SavesSession(display, confirmed) THEN "present" ELSE authFile
    /\ UNCHANGED <<prev, pool, elsewhere, context, page, attempt, waits, gotoErrors,
                   lastGoto, polls, idx, seen, snap>>

(***************************************************************************)
(* The worker's shared browser, between calls.                              *)
(***************************************************************************)
\* the shared browser loses its connection (it crashed, or was killed): from now on
\* is_connected() answers False ("down") or raises ("broken")
BrowserDisconnects ==
    /\ pc = "idle" /\ browser = "up" /\ launches < MaxLaunches
    /\ browser' \in {"down", "broken"}
    /\ UNCHANGED <<authFile, prev, elsewhere, launches, runtimes, who, pc, context, page,
                   nav, polls, idx, seen, calls, snap, logs, ret>>

\* DeilabsClient.shutdown_shared_browsers: every registered runtime's browser is
\* closed and its driver stopped, and the list is emptied
shutdown_shared_browsers ==
    /\ pc = "idle" /\ launches < MaxLaunches
    /\ runtimes' = 0
    /\ browser' = IF runtimes > 0 THEN "closed" ELSE browser
    /\ UNCHANGED <<authFile, prev, elsewhere, launches, who, pc, context, page, nav, polls,
                   idx, seen, calls, snap, logs, ret>>

(***************************************************************************)
(* The specifications.                                                      *)
(***************************************************************************)
Next ==
    \/ StartOp
    \/ SessionPageEnter
    \/ _open_lab_page
    \/ _wait_for_page_ready
    \/ get_status
    \/ ensure_presence
    \/ _enter_lab_select
    \/ _enter_lab_click
    \/ _enter_lab_wait
    \/ _enter_lab_recheck
    \/ leave_lab
    \/ _leave_lab_click
    \/ _leave_lab_wait
    \/ _leave_lab_recheck
    \/ SessionPageExit
    \/ Finish
    \/ interactive_login

Spec == Init /\ [][Next]_vars

\* the successful page.click calls among cs
OkClicks(cs) == Cardinality({i \in 1..Len(cs) : cs[i].api = "click" /\ cs[i].ok})

\* a caller that calls ensure_presence again and again (bot.py:304-307, debug off) in
\* a process with DEILABS_NAV_RETRIES=0, and keeps what the call before returned
PunchAgain == Call_operation({"ensure_presence"}, {0}, {FALSE}, {TRUE}, {"ok"})

Remember ==
    /\ pc = "done"
    /\ prev' = [ op |-> op, seen |-> seen, clicks |-> OkClicks(calls),
                 inside |-> ~ContentRaises(page) /\ _is_inside_lab(page),
                 kind |-> ret.kind, text |-> ret.text ]
    /\ Idle
    /\ UNCHANGED <<authFile, pool, elsewhere>>

\* the user has logged in before
InitTwice ==
    /\ authFile = "present"
    /\ self = NoClient /\ op = "none" /\ pc = "idle" /\ context = "none"
    /\ page = BlankPage /\ attempt = 0 /\ gotoCalls = 0 /\ waits = <<>>
    /\ gotoErrors = <<>> /\ lastGoto = GotoOk /\ prev = NoPrev
    /\ polls = 0 /\ idx = 0 /\ seen = <<>> /\ calls = <<>> /\ fs = "unknown"
    /\ snapshots = <<>> /\ logs = <<>> /\ ret = NoRet
    /\ browser = "none" /\ launches = 0 /\ runtimes = 0 /\ logDisk = "unknown"
    /\ NoThreads
    /\ NoBot

NextTwice ==
    \/ PunchAgain
    \/ SessionPageEnter
    \/ _open_lab_page
    \/ _wait_for_page_ready
    \/ ensure_presence
    \/ _enter_lab_select
    \/ _enter_lab_click
    \/ _enter_lab_wait
    \/ _enter_lab_recheck
    \/ SessionPageExit
    \/ Remember

SpecTwice == InitTwice /\ [][NextTwice]_vars

\* the steps of a running operation, from the call to the return
Step ==
    \/ SessionPageEnter
    \/ _open_lab_page
    \/ _wait_for_page_ready
    \/ get_status
    \/ ensure_presence
    \/ _enter_lab_select
    \/ _enter_lab_click
    \/ _enter_lab_wait
    \/ _enter_lab_recheck
    \/ leave_lab
    \/ _leave_lab_click
    \/ _leave_lab_wait
    \/ _leave_lab_recheck
    \/ SessionPageExit

\* the thread that runs an operation keeps running: every browser call comes back
\* (with a value or an exception) and the clock advances
SpecLive == Init /\ [][Next]_vars /\ WF_vars(Step)

\* callers as in StartOp, in a process with DEILABS_NAV_RETRIES=0, while the log file
\* or its directory may be unwritable
CallWhileLogFails == Call_operation(Operations, {0}, BOOLEAN, {TRUE}, LogDisks)

NextLog ==
    \/ CallWhileLogFails
    \/ SessionPageEnter
    \/ _open_lab_page
    \/ _wait_for_page_ready
    \/ get_status
    \/ ensure_presence
    \/ _enter_lab_select
    \/ _enter_lab_click
    \/ _enter_lab_wait
    \/ _enter_lab_recheck
    \/ leave_lab
    \/ _leave_lab_click
    \/ _leave_lab_wait
    \/ _leave_lab_recheck
    \/ SessionPageExit
    \/ Finish

SpecLog == InitTwice /\ [][NextLog]_vars

\* the bot's worker thread (bot.py:304-319: debug off) in a process with
\* DEILABS_NAV_RETRIES=0 and DEILABS_REUSE_BROWSER set either way, whose shared
\* browser may crash or be shut down between calls
CallOnWorker == Call_operation(Operations, {0}, {FALSE}, BOOLEAN, {"ok"})

NextPool ==
    \/ CallOnWorker
    \/ SessionPageEnter
    \/ _open_lab_page
    \/ _wait_for_page_ready
    \/ get_status
    \/ ensure_presence
    \/ _enter_lab_select
    \/ _enter_lab_click
    \/ _enter_lab_wait
    \/ _enter_lab_recheck
    \/ leave_lab
    \/ _leave_lab_click
    \/ _leave_lab_wait
    \/ _leave_lab_recheck
    \/ SessionPageExit
    \/ Finish
    \/ BrowserDisconnects
    \/ shutdown_shared_browsers

SpecPool == InitTwice /\ [][NextPool]_vars

(***************************************************************************)
(* The runtime pool across worker threads: _get_thread_runtime,             *)
(* _session_page and shutdown_shared_browsers with one runtime per thread   *)
(* and the registry they share.  What an operation does with its page       *)
(* between the yield and the finally does not touch the pool and is one     *)
(* step here.                                                               *)
(***************************************************************************)
\* the single worker of the other specifications, which stays as it is here
worker ==
    <<authFile, self, op, pc, context, page, attempt, gotoCalls, waits, gotoErrors,
      lastGoto, polls, idx, seen, calls, fs, snapshots, logs, ret, prev, browser,
      launches, runtimes, logDisk>>

\* sync_playwright().start() and firefox.launch(headless=True) on thread t
Launched(t, shared) ==
    [ owner |-> t, shared |-> shared, state |-> "up", closes |-> 0, stops |-> 0,
      leaked |-> FALSE ]

\* a runtime lookup in one slot shared by all threads
CachedRuntimeOfAnyThread(tl, t) ==
    IF \E u \in Threads : tl[u] # 0 THEN tl[CHOOSE u \in Threads : tl[u] # 0] ELSE 0

\* getattr(self._thread_local, "runtime", None) on thread t
CachedRuntime(tl, t) == tl[t]

\* the state of the browser of runtime i, "none" when there is no runtime
StateOf(i) == IF i = 0 THEN "none" ELSE procs[i].state

\* how the section after the launch can go
ContextOutcomes == {"ok", "new_context_fails", "new_page_fails"}

\* _session_page up to the yield, on thread t, for a client of user uid whose
\* reuse_browser is reuse.  With reuse, _get_thread_runtime returns the thread's
\* runtime if its browser is connected, and else launches one, makes it the
\* thread's runtime and appends it to _runtimes; without, the call launches a
\* browser of its own, which is not registered.  When new_context or new_page
\* raises without reuse, leaving `with sync_playwright()` stops the driver and the
\* browser with it; with reuse a context whose new_page raised stays open.
SessionPageEnterOn(t) ==
    /\ session[t].at # "yielded"
    /\ \E uid \in UserIds, reuse \in BOOLEAN, launch_ok \in BOOLEAN, c \in ContextOutcomes :
        LET cached == CachedRuntime(_thread_local, t)
            usable == reuse /\ RuntimeIsUsable(StateOf(cached))
            new    == Len(procs) + 1
            on     == IF usable THEN cached ELSE new
            mine   == [at |-> "yielded", on |-> on, reuse |-> reuse, uid |-> uid]
            failed == [NoSession EXCEPT !.at = "raised"]
            after  == IF usable THEN procs ELSE Append(procs, Launched(t, reuse))
        IN  /\ usable \/ Len(procs) < MaxBrowsers
            /\ IF ~usable /\ ~launch_ok
               THEN /\ session' = [session EXCEPT ![t] = failed]
                    /\ UNCHANGED <<procs, _runtimes, _thread_local>>
               ELSE /\ _thread_local' =
                          IF reuse /\ ~usable THEN [_thread_local EXCEPT ![t] = new]
                          ELSE _thread_local
                    /\ _runtimes' =
                          IF reuse /\ ~usable THEN Append(_runtimes, new) ELSE _runtimes
                    /\ IF c = "ok"
                       THEN /\ session' = [session EXCEPT ![t] = mine]
                            /\ procs' = after
                       ELSE /\ session' = [session EXCEPT ![t] = failed]
                            /\ procs' =
                                 IF ~reuse
                                 THEN [after EXCEPT ![on].state = "closed",
                                                    ![on].stops = @ + 1]
                                 ELSE IF c = "new_page_fails"
                                 THEN [after EXCEPT ![on].leaked = TRUE]
                                 ELSE after
    /\ UNCHANGED <<sync, worker, bot>>

\* the operation's body ends, with a result or an exception, and _session_page's
\* finally runs: context.close() with reuse; browser.close() and the exit of
\* `with sync_playwright()` without
SessionPageExitOn(t) ==
    /\ session[t].at = "yielded"
    /\ \E body_ok \in BOOLEAN :
        session' = [session EXCEPT
                      ![t] = [NoSession EXCEPT !.at = IF body_ok THEN "returned"
                                                               ELSE "raised"]]
    /\ procs' = IF session[t].reuse THEN procs
                ELSE [procs EXCEPT ![session[t].on].state = "closed",
                                   ![session[t].on].closes = @ + 1,
                                   ![session[t].on].stops = @ + 1]
    /\ UNCHANGED <<_runtimes, _thread_local, sync, worker, bot>>

\* browser process i loses its connection: is_connected() answers False ("down") or
\* raises ("broken") from now on
BrowserCrashes(i) ==
    /\ procs[i].state = "up"
    /\ \E s \in {"down", "broken"} : procs' = [procs EXCEPT ![i].state = s]
    /\ UNCHANGED <<_runtimes, _thread_local, session, sync, worker, bot>>

\* the indexes held by a list of runtimes
Registered(rs) == {rs[k] : k \in 1..Len(rs)}

\* a shutdown that gives up at the first browser whose close() raises
ShutdownUntilFirstRaise(rs, ps, closeRaises, stopRaises) ==
    [ i \in 1..Len(ps) |->
        IF i \in Registered(rs) /\ \A j \in Registered(rs) \cap closeRaises : i <= j
        THEN [ps[i] EXCEPT !.closes = @ + 1,
                           !.stops = IF i \in closeRaises THEN @ ELSE @ + 1,
                           !.state = IF i \in closeRaises THEN @ ELSE "closed"]
        ELSE ps[i] ]

\* the loop of shutdown_shared_browsers over the runtimes rs it took from the
\* registry: browser.close() and playwright.stop() are each called in a try of their
\* own whose except passes; the browser is gone once either went through
Shutdown(rs, ps, closeRaises, stopRaises) ==
    [ i \in 1..Len(ps) |->
        IF i \in Registered(rs)
        THEN [ps[i] EXCEPT !.closes = @ + 1,
                           !.stops = @ + 1,
                           !.state = IF i \in closeRaises /\ i \in stopRaises
                                     THEN @ ELSE "closed"]
        ELSE ps[i] ]

\* DeilabsClient.shutdown_shared_browsers, the atexit hook: it runs when the worker
\* threads have finished; it empties the registry and closes what was in it
shutdown_shared_browsers_at_exit ==
    /\ \A t \in Threads : session[t].at # "yielded"
    /\ _runtimes # <<>>
    /\ \E closeRaises \in SUBSET Registered(_runtimes),
          stopRaises \in SUBSET Registered(_runtimes) :
        procs' = Shutdown(_runtimes, procs, closeRaises, stopRaises)
    /\ _runtimes' = <<>>
    /\ UNCHANGED <<_thread_local, session, sync, worker, bot>>

NextThreads ==
    \/ \E t \in Threads : SessionPageEnterOn(t)
    \/ \E t \in Threads : SessionPageExitOn(t)
    \/ \E i \in 1..Len(procs) : BrowserCrashes(i)
    \/ shutdown_shared_browsers_at_exit

SpecThreads == InitTwice /\ [][NextThreads]_vars

(***************************************************************************)
(* The Telegram bot (bot.py).  The texts it matches are Python strs again:  *)
(* sequences of characters, lowered and searched as the code does.         *)
(***************************************************************************)
\* ---- the markers of _infer_success, _derive_current_state and
\* _validate_session_file (bot.py:186, 199-209, 222-234) ----
MarkSessionExpired ==
    <<"s","e","s","s","i","o","n"," ","e","x","p","i","r","e","d">>

MarkCouldNot ==
    <<"c","o","u","l","d"," ","n","o","t">>

MarkError ==
    <<"e","r","r","o","r">>

MarkUncertain ==
    <<"u","n","c","e","r","t","a","i","n">>

MarkPresenceLogged ==
    <<"p","r","e","s","e","n","c","e"," ","l","o","g","g","e","d"," ","s","u","c","c","e",
      "s","s","f","u","l","l","y">>

MarkAlreadyInside ==
    <<"y","o","u"," ","a","r","e"," ","a","l","r","e","a","d","y"," ","i","n","s","i","d",
      "e">>

MarkNotInAnyLab ==
    <<"y","o","u"," ","a","r","e"," ","n","o","t"," ","i","n"," ","a","n","y"," ","l","a",
      "b">>

MarkExited ==
    <<"y","o","u"," ","h","a","v","e"," ","e","x","i","t","e","d"," ","t","h","e"," ","l",
      "a","b">>

MarkLabsClosed ==
    <<"l","a","b","o","r","a","t","o","r","i","e","s"," ","a","r","e"," ","c","u","r","r",
      "e","n","t","l","y"," ","c","l","o","s","e","d">>

MarkInvalid ==
    <<"i","n","v","a","l","i","d">>

MarkDeiDomain ==
    <<"d","e","i",".","u","n","i","p","d",".","i","t">>

failure_markers == <<MarkSessionExpired, MarkCouldNot, MarkError, MarkUncertain>>

success_markers ==
    <<MarkPresenceLogged, MarkAlreadyInside, MarkNotInAnyLab, MarkExited>>

derive_failure_markers == <<MarkCouldNot, MarkError, MarkInvalid>>

\* the characters of the user ids and lab names that get formatted into messages
Chars(s) ==
    CASE s = "174325172" ->
           <<"1","7","4","3","2","5","1","7","2">>
      [] s = "42" ->
           <<"4","2">>
      [] s = "alice" ->
           <<"a","l","i","c","e">>
      [] s = "DEI/A | 230 DEI/A" ->
           <<"D","E","I","/","A"," ","|"," ","2","3","0"," ","D","E","I","/","A">>
      [] s = "LAB-X" ->
           <<"L","A","B","-","X">>
      [] s = "page_is_navigating" ->
           <<"p","a","g","e","_","i","s","_","n","a","v","i","g","a","t","i","n","g">>
      [] s = "" ->
           <<>>

\* str(m): the characters of message m, its argument formatted into the template
Str(m) ==
    CASE m.text =
           "Session expired: please login again with deilabs login --user-id {user_id}. If you use the Telegram bot, upload the refreshed auth_{user_id}.json file." ->
           <<"S","e","s","s","i","o","n"," ","e","x","p","i","r","e","d",":"," ","p","l",
             "e","a","s","e"," ","l","o","g","i","n"," ","a","g","a","i","n"," ","w","i",
             "t","h"," ","d","e","i","l","a","b","s"," ","l","o","g","i","n"," ","-","-",
             "u","s","e","r","-","i","d"," ">>
           \o Chars(m.arg)
           \o <<"."," ","I","f"," ","y","o","u"," ","u","s","e"," ","t","h","e"," ","T","e",
             "l","e","g","r","a","m"," ","b","o","t",","," ","u","p","l","o","a","d"," ",
             "t","h","e"," ","r","e","f","r","e","s","h","e","d"," ","a","u","t","h","_">>
           \o Chars(m.arg)
           \o <<".","j","s","o","n"," ","f","i","l","e",".">>
      [] m.text =
           "Laboratories are currently closed. Presence cannot be logged at this time." ->
           <<"L","a","b","o","r","a","t","o","r","i","e","s"," ","a","r","e"," ","c","u",
             "r","r","e","n","t","l","y"," ","c","l","o","s","e","d","."," ","P","r","e",
             "s","e","n","c","e"," ","c","a","n","n","o","t"," ","b","e"," ","l","o","g",
             "g","e","d"," ","a","t"," ","t","h","i","s"," ","t","i","m","e",".">>
      [] m.text = "You are already inside the lab. Nothing to do." ->
           <<"Y","o","u"," ","a","r","e"," ","a","l","r","e","a","d","y"," ","i","n","s",
             "i","d","e"," ","t","h","e"," ","l","a","b","."," ","N","o","t","h","i","n",
             "g"," ","t","o"," ","d","o",".">>
      [] m.text = "Could not find lab select element for {lab_name}." ->
           <<"C","o","u","l","d"," ","n","o","t"," ","f","i","n","d"," ","l","a","b"," ",
             "s","e","l","e","c","t"," ","e","l","e","m","e","n","t"," ","f","o","r"," ">>
           \o Chars(m.arg)
           \o <<".">>
      [] m.text = "Could not click Enter button." ->
           <<"C","o","u","l","d"," ","n","o","t"," ","c","l","i","c","k"," ","E","n","t",
             "e","r"," ","b","u","t","t","o","n",".">>
      [] m.text = "Presence logged successfully for lab: {lab_name}" ->
           <<"P","r","e","s","e","n","c","e"," ","l","o","g","g","e","d"," ","s","u","c",
             "c","e","s","s","f","u","l","l","y"," ","f","o","r"," ","l","a","b",":"," ">>
           \o Chars(m.arg)
      [] m.text = "Tried to log presence, but could not confirm success." ->
           <<"T","r","i","e","d"," ","t","o"," ","l","o","g"," ","p","r","e","s","e","n",
             "c","e",","," ","b","u","t"," ","c","o","u","l","d"," ","n","o","t"," ","c",
             "o","n","f","i","r","m"," ","s","u","c","c","e","s","s",".">>
      [] m.text =
           "You are not in any lab and laboratories are currently closed." ->
           <<"Y","o","u"," ","a","r","e"," ","n","o","t"," ","i","n"," ","a","n","y"," ",
             "l","a","b"," ","a","n","d"," ","l","a","b","o","r","a","t","o","r","i","e",
             "s"," ","a","r","e"," ","c","u","r","r","e","n","t","l","y"," ","c","l","o",
             "s","e","d",".">>
      [] m.text = "You are not in any lab." ->
           <<"Y","o","u"," ","a","r","e"," ","n","o","t"," ","i","n"," ","a","n","y"," ",
             "l","a","b",".">>
      [] m.text = "Could not find Exit button." ->
           <<"C","o","u","l","d"," ","n","o","t"," ","f","i","n","d"," ","E","x","i","t",
             " ","b","u","t","t","o","n",".">>
      [] m.text =
           "Tried to leave lab, but status is uncertain (still appears inside)." ->
           <<"T","r","i","e","d"," ","t","o"," ","l","e","a","v","e"," ","l","a","b",",",
             " ","b","u","t"," ","s","t","a","t","u","s"," ","i","s"," ","u","n","c","e",
             "r","t","a","i","n"," ","(","s","t","i","l","l"," ","a","p","p","e","a","r",
             "s"," ","i","n","s","i","d","e",")",".">>
      [] m.text = "You have exited the lab." ->
           <<"Y","o","u"," ","h","a","v","e"," ","e","x","i","t","e","d"," ","t","h","e",
             " ","l","a","b",".">>
      [] m.text = "Laboratories are currently closed." ->
           <<"L","a","b","o","r","a","t","o","r","i","e","s"," ","a","r","e"," ","c","u",
             "r","r","e","n","t","l","y"," ","c","l","o","s","e","d",".">>
      [] m.text = "You are already inside the lab." ->
           <<"Y","o","u"," ","a","r","e"," ","a","l","r","e","a","d","y"," ","i","n","s",
             "i","d","e"," ","t","h","e"," ","l","a","b",".">>
      [] m.text = "Automatic status check failed: {exc}" ->
           <<"A","u","t","o","m","a","t","i","c"," ","s","t","a","t","u","s"," ","c","h",
             "e","c","k"," ","f","a","i","l","e","d",":"," ">>
           \o Chars(m.arg)


\* one thing a handler did that others can see
Effect(kind, text, arg) == [kind |-> kind, text |-> text, arg |-> arg]

\* update.message.reply_text(msg)
Reply(msg) == Effect("reply", msg.text, msg.arg)

\* ---- prefs.py ----
\* get_lab_for_user, then resolve_lab without override: the saved lab, else DEFAULT_LAB
resolve_lab(prefs, uid) == IF prefs[uid] # None THEN prefs[uid] ELSE DefaultLab

\* ---- bot.py:197-237 ----
\* any(marker in text for marker in markers)
AnyIn(markers, text) == \E i \in 1..Len(markers) : Contains(markers[i], text)

\* an _infer_success that forgets status_text.lower()
_infer_success_as_written(status_text) ==
    LET lowered == Str(status_text)
    IN  IF AnyIn(failure_markers, lowered) THEN "False"
        ELSE IF AnyIn(success_markers, lowered) THEN "True"
        ELSE None

\* _infer_success(status_text): "True", "False" or None
_infer_success(status_text) ==
    LET lowered == Lower(Str(status_text))
    IN  IF AnyIn(failure_markers, lowered) THEN "False"
        ELSE IF AnyIn(success_markers, lowered) THEN "True"
        ELSE None

\* the tuple _derive_current_state returns; no tuple (None) is NoState
State(status, lab_name, entered_at) ==
    [status |-> status, lab_name |-> lab_name, entered_at |-> entered_at]

NoState == State(None, None, None)

\* a _derive_current_state that takes every uncertain outcome for unknown
_derive_current_state_uncertain(lab_name, command, status_text) ==
    LET lowered == Lower(Str(status_text))
    IN  IF Contains(MarkPresenceLogged, lowered) \/ Contains(MarkAlreadyInside, lowered)
        THEN State("inside", lab_name, "now")
        ELSE IF Contains(MarkNotInAnyLab, lowered) \/ Contains(MarkExited, lowered)
        THEN State("outside", None, None)
        ELSE State("unknown", None, None)

\* _derive_current_state(lab_name, command, status_text); now_iso is "now"
_derive_current_state(lab_name, command, status_text) ==
    LET lowered == Lower(Str(status_text))
    IN  IF Contains(MarkPresenceLogged, lowered) \/ Contains(MarkAlreadyInside, lowered)
        THEN State("inside", lab_name, "now")
        ELSE IF Contains(MarkNotInAnyLab, lowered) \/ Contains(MarkExited, lowered)
        THEN State("outside", None, None)
        ELSE IF Contains(MarkSessionExpired, lowered) \/ Contains(MarkLabsClosed, lowered)
        THEN State("unknown", None, None)
        ELSE IF AnyIn(derive_failure_markers, lowered)
        THEN State("unknown", None, None)
        ELSE NoState

\* ---- db.py ----
\* a log_status_event that inserts the row twice
log_status_event_twice(d, user_id, lab_name, command, status_text, success) ==
    LET row == [ user_id |-> user_id, lab_name |-> lab_name, command |-> command,
                 status_text |-> status_text, success |-> success ]
    IN  [d EXCEPT !.status_events = Append(Append(@, row), row)]

\* log_status_event(...): one more row of status_events
log_status_event(d, user_id, lab_name, command, status_text, success) ==
    [d EXCEPT !.status_events =
        Append(@, [ user_id |-> user_id, lab_name |-> lab_name, command |-> command,
                    status_text |-> status_text, success |-> success ])]

\* an INSERT without the ON CONFLICT clause and without the primary key
update_current_status_insert(d, user_id, username, status, lab_name, last_entered_at) ==
    [d EXCEPT !.current_status =
        Append(@, Row(user_id, username, status, lab_name, last_entered_at))]

\* update_current_status(...): INSERT INTO current_status ... ON CONFLICT(user_id)
\* DO UPDATE SET every column to the new value
update_current_status(d, user_id, username, status, lab_name, last_entered_at) ==
    LET row      == Row(user_id, username, status, lab_name, last_entered_at)
        conflict == \E i \in 1..Len(d.current_status) :
                        d.current_status[i].user_id = user_id
    IN  [d EXCEPT !.current_status =
            IF conflict
            THEN [i \in 1..Len(@) |-> IF @[i].user_id = user_id THEN row ELSE @[i]]
            ELSE Append(@, row)]

\* ---- /status, /punch, /exit ----
Commands == {"status", "punch", "exit"}

\* the progress message of a command
Progress(cmd, lab) ==
    CASE cmd = "status" -> [text |-> "Checking your current lab status...", arg |-> ""]
      [] cmd = "punch" ->
            [text |-> "Ensuring presence in lab: {lab} Please wait...", arg |-> lab]
      [] cmd = "exit" -> [text |-> "Trying to leave the lab...", arg |-> ""]

\* run_status, run_ensure_presence, run_exit: the client operation behind a command
Runs(cmd) ==
    CASE cmd = "status" -> "get_status"
      [] cmd = "punch" -> "ensure_presence"
      [] cmd = "exit" -> "leave_lab"

\* what the client operation can return to the bot
Returns(o, c) ==
    CASE o = "get_status" ->
            {_session_expired_message(c), MsgStatusClosed, MsgStatusInside, MsgNotInLab}
      [] o = "ensure_presence" ->
            { _session_expired_message(c), MsgLabsClosedPunch, MsgAlreadyInside,
              MsgNoSelect(c), MsgNoEnterButton, MsgEntered(c), MsgEnterUncertain }
      [] o = "leave_lab" ->
            { _session_expired_message(c), MsgNotInLab, MsgNotInLabClosed,
              MsgNoExitButton, MsgLeaveUncertain, MsgExited }

\* a handler can start: the one before it has ended (updates are handled one at a
\* time)
Free == handler.at # "client"

\* status_cmd, punch_cmd, exit_cmd up to the await of run_in_executor: the lab is
\* resolved, the progress message sent and the client call handed to the executor
CommandStart(cmds, room) ==
    /\ Free
    /\ Len(db.status_events) < room
    /\ \E cmd \in cmds, uid \in Callers :
        LET lab == resolve_lab(files.prefs, uid)
        IN  /\ handler' = [NoHandler EXCEPT !.cmd = cmd, !.uid = uid, !.lab = lab,
                                            !.at = "client"]
            /\ effects' = << Reply(Progress(cmd, lab)),
                             Effect("run_in_executor", Runs(cmd), uid) >>
    /\ UNCHANGED <<db, files, worker, threads>>

Command_start == CommandStart(Commands, MaxEvents)

\* the client call raised: the handler ends there, the exception goes to _on_error
Command_raises ==
    /\ handler.at = "client" /\ handler.cmd \in Commands
    /\ \E exc \in {ContentError, StorageStateError, LaunchError} :
        handler' = [handler EXCEPT !.at = "raised", !.out = Raise(exc)]
    /\ UNCHANGED <<db, effects, files, worker, threads>>

\* the rest of status_cmd, punch_cmd, exit_cmd, once the client call has returned
\* result: log_status_event, _derive_current_state and, if it gave a state,
\* update_current_status, then the reply
Command_finish ==
    /\ handler.at = "client" /\ handler.cmd \in Commands
    /\ \E result \in Returns(Runs(handler.cmd),
                             DeilabsClient(handler.uid, handler.lab, FALSE, 0, TRUE)) :
        LET success == _infer_success(result)
            logged  == log_status_event(db, handler.uid, handler.lab, handler.cmd,
                                        result, success)
            derived == _derive_current_state(handler.lab, handler.cmd, result)
        IN  /\ db' = IF derived # NoState
                     THEN update_current_status(logged, handler.uid,
                                                Username(handler.uid), derived.status,
                                                IF derived.lab_name = None THEN ""
                                                ELSE derived.lab_name,
                                                derived.entered_at)
                     ELSE logged
            /\ effects' =
                 effects
                 \o << Effect("log_status_event", result.text, result.arg) >>
                 \o (IF derived # NoState
                     THEN << Effect("update_current_status", derived.status, handler.uid) >>
                     ELSE << >>)
                 \o << Reply(result) >>
            /\ handler' = [handler EXCEPT !.at = "done", !.out = Return(result)]
    /\ UNCHANGED <<files, worker, threads>>

\* `deilabs setlab --user-id U --lab L` (cli.py:97-100), and the bot's setlab button
\* for its callers: the lab is saved in user_prefs.json
Setlab(users, labs) ==
    /\ Free
    /\ \E uid \in users, lab \in labs :
        /\ files.prefs[uid] # lab
        /\ files' = [files EXCEPT !.prefs[uid] = lab]
    /\ UNCHANGED <<db, effects, handler, worker, threads>>

setlab == Setlab(AllUsers, Labs)

NextBot ==
    \/ Command_start
    \/ Command_raises
    \/ Command_finish
    \/ setlab

SpecBot == InitTwice /\ [][NextBot]_vars

\* ---- session uploads (bot.py:629-681) ----
\* what a user can send as a document: whether the downloaded copy can be opened,
\* decodes as UTF-8, parses as JSON, is a JSON object, and the domains of the entries
\* of its "cookies" list (None for an entry without "domain"; cookies is None when
\* the key is missing or is no list)
Upload(name, readable, utf8, json, dict, cookies) ==
    [ name |-> name, readable |-> readable, utf8 |-> utf8, json |-> json,
      dict |-> dict, cookies |-> cookies ]

DomainDei == <<".","d","e","i",".","u","n","i","p","d",".","i","t">>

DomainDeiUpper == <<"D","E","I","L","A","B","S",".","D","E","I",".","U","N","I","P","D",".","I","T">>

DomainOther == <<".","e","x","a","m","p","l","e",".","c","o","m">>

Uploads ==
    { Upload("session.json", TRUE, TRUE, TRUE, TRUE, <<DomainOther, DomainDei>>),
      Upload("SESSION.JSON", TRUE, TRUE, TRUE, TRUE, <<DomainDeiUpper>>),
      Upload("other_site.json", TRUE, TRUE, TRUE, TRUE, <<DomainOther>>),
      Upload("no_domain.json", TRUE, TRUE, TRUE, TRUE, <<None>>),
      Upload("no_cookies.json", TRUE, TRUE, TRUE, TRUE, <<>>),
      Upload("cookies_missing.json", TRUE, TRUE, TRUE, TRUE, None),
      Upload("array.json", TRUE, TRUE, TRUE, FALSE, None),
      Upload("broken.json", TRUE, TRUE, FALSE, FALSE, None),
      Upload("photo.jpg", TRUE, FALSE, FALSE, FALSE, None),
      Upload("unreadable.json", FALSE, TRUE, TRUE, TRUE, <<DomainDei>>) }

\* json.load(f) on bytes that are not UTF-8: a ValueError that is neither a
\* JSONDecodeError nor an OSError
UnicodeDecodeError ==
    [type |-> "UnicodeDecodeError", msg |-> "utf-8 codec cannot decode byte"]

ErrNotJson ==
    [text |-> "The uploaded file is not valid JSON. Run deilabs login again and resend it.",
     arg |-> ""]

ErrUnreadable == [text |-> "Could not read the uploaded file. Please try again.", arg |-> ""]

ErrNotObject == [text |-> "The session file must contain a JSON object.", arg |-> ""]

ErrNoCookies ==
    [text |-> "No cookies were found. Run deilabs login again and resend the new file.",
     arg |-> ""]

ErrNotDeiLabs ==
    [text |-> "The file does not look like a DeiLabs session (cookies missing). Upload the correct file.",
     arg |-> ""]

NoErr == [text |-> "", arg |-> ""]

\* what _validate_session_file gives: (is_valid, err), or the exception that left it
Verdict(ok, err) == [ok |-> ok, err |-> err, raised |-> FALSE]

\* _validate_session_file(path) on the downloaded copy f
_validate_session_file(f) ==
    IF ~f.readable THEN Verdict(FALSE, ErrUnreadable)
    ELSE IF ~f.utf8 THEN [ok |-> FALSE, err |-> NoErr, raised |-> TRUE]
    ELSE IF ~f.json THEN Verdict(FALSE, ErrNotJson)
    ELSE IF ~f.dict THEN Verdict(FALSE, ErrNotObject)
    ELSE IF f.cookies = None THEN Verdict(FALSE, ErrNoCookies)
    ELSE IF f.cookies = <<>> THEN Verdict(FALSE, ErrNoCookies)
    ELSE IF \E i \in 1..Len(f.cookies) :
               /\ f.cookies[i] # None
               /\ Contains(MarkDeiDomain, Lower(f.cookies[i]))
    THEN Verdict(TRUE, NoErr)
    ELSE Verdict(FALSE, ErrNotDeiLabs)

MsgSendAsDocument == [text |-> "Send the file as a document.", arg |-> ""]

MsgTooLarge == [text |-> "File too large (max 10MB).", arg |-> ""]

MsgSessionUpdated ==
    [text |-> "Session updated successfully. You can now run /punch, /status, or /exit.",
     arg |-> ""]

\* log_session_upload(...): one more row of session_uploads
log_session_upload(d, user_id, source, stored) ==
    [d EXCEPT !.session_uploads =
        Append(@, [user_id |-> user_id, source |-> source, stored |-> stored])]

\* a message without a document, or with one over 10 MB: a reply and nothing else
upload_document_refused ==
    /\ Free
    /\ \E uid \in Callers, msg \in {MsgSendAsDocument, MsgTooLarge} :
        /\ handler' = [NoHandler EXCEPT !.cmd = "upload", !.uid = uid, !.at = "done",
                                        !.out = Return(msg)]
        /\ effects' = <<Reply(msg)>>
    /\ UNCHANGED <<db, files, worker, threads>>

\* upload_document for a document f: it is downloaded to its audit path under
\* uploads/<uid>/ and validated there.  When _validate_session_file raises, the
\* handler ends at once.  When the file is refused, the audit copy is unlinked (an
\* OSError of unlink is passed over) and the reason is the reply.  Otherwise the
\* present auth_<uid>.json is copied to .bak, the audit copy is copied over
\* auth_<uid>.json, the upload is logged and the user told
upload_document ==
    /\ Free
    /\ Len(db.session_uploads) < MaxUploads
    /\ \E uid \in Callers, f \in Uploads, unlink_ok \in BOOLEAN :
        LET v == _validate_session_file(f)
            downloaded == [files EXCEPT !.audit = [uid |-> uid, name |-> f.name]]
            h == [NoHandler EXCEPT !.cmd = "upload", !.uid = uid, !.lab = f.name,
                                   !.at = "done"]
        IN  IF v.raised
            THEN /\ files' = downloaded
                 /\ handler' = [h EXCEPT !.at = "raised", !.out = Raise(UnicodeDecodeError)]
                 /\ effects' = <<>>
                 /\ db' = db
            ELSE IF ~v.ok
            THEN /\ files' = IF unlink_ok
                             THEN [files EXCEPT !.audit = [uid |-> uid, name |-> "absent"]]
                             ELSE downloaded
                 /\ handler' = [h EXCEPT !.out = Return(v.err)]
                 /\ effects' = <<Reply(v.err)>>
                 /\ db' = db
            ELSE /\ files' = [downloaded EXCEPT
                                !.bak[uid] = IF files.auth[uid] # "absent"
                                             THEN files.auth[uid] ELSE @,
                                !.auth[uid] = f.name]
                 /\ db' = log_session_upload(db, uid, f.name, "auth")
                 /\ handler' = [h EXCEPT !.out = Return(MsgSessionUpdated)]
                 /\ effects' = << Effect("log_session_upload", f.name, uid),
                                  Reply(MsgSessionUpdated) >>
    /\ UNCHANGED <<worker, threads>>

NextUpload ==
    \/ upload_document_refused
    \/ upload_document

SpecUpload == InitTwice /\ [][NextUpload]_vars

\* ---- known users and the scheduled jobs (bot.py:60-71, 683-743) ----
\* what a job returns: the counters of its dict
Counts(total, sent, failed, skipped) ==
    [total |-> total, sent |-> sent, failed |-> failed, skipped |-> skipped]

Digits == {"0", "1", "2", "3", "4", "5", "6", "7", "8", "9"}

\* int(uid) does not raise ValueError
IsInt(uid) == Chars(uid) # <<>> /\ \A i \in 1..Len(Chars(uid)) : Chars(uid)[i] \in Digits

\* the order in which a dict of users is walked
UserOrder == <<"174325172", "42", "alice">>

\* whether user u is among the rows of current_status or the keys of
\* user_prefs.json
Known(d, prefs, u) == RowOf(d, u) # NoRow \/ prefs[u] # None

\* list_current_status_users(): the user ids of the rows, in the order of the table
list_current_status_users(d) ==
    [i \in 1..Len(d.current_status) |-> d.current_status[i].user_id]

\* list(get_known_users().keys()): the users with a row, then the keys of the
\* preferences that have none
get_known_users(d, prefs) ==
    list_current_status_users(d)
    \o SelectSeq(UserOrder, LAMBDA u : RowOf(d, u) = NoRow /\ prefs[u] # None)

\* get_known_users()[uid]: the username of the row, None for a key of the preferences
KnownUsername(d, uid) == RowOf(d, uid).username

\* what the loop of morning_ping_job has done so far
PingState(sent, failed, skipped, done) ==
    [sent |-> sent, failed |-> failed, skipped |-> skipped, done |-> done]

\* a loop that gives up at the first send that raises
RECURSIVE PingLoopUntilFailure(_, _, _, _)
PingLoopUntilFailure(users, failing, i, st) ==
    IF i > Len(users) THEN st
    ELSE IF ~IsInt(users[i])
    THEN PingLoopUntilFailure(users, failing, i + 1, [st EXCEPT !.skipped = @ + 1])
    ELSE IF users[i] \in failing
    THEN [st EXCEPT !.failed = @ + 1,
                    !.done = Append(@, Effect("send_message", "failed", users[i]))]
    ELSE PingLoopUntilFailure(users, failing, i + 1,
            [st EXCEPT !.sent = @ + 1,
                       !.done = Append(@, Effect("send_message", "sent", users[i]))])

\* the for loop of morning_ping_job from its i-th user on; send_message raises for
\* the chats in failing
RECURSIVE PingLoop(_, _, _, _)
PingLoop(users, failing, i, st) ==
    IF i > Len(users) THEN st
    ELSE IF ~IsInt(users[i])
    THEN PingLoop(users, failing, i + 1, [st EXCEPT !.skipped = @ + 1])
    ELSE IF users[i] \in failing
    THEN PingLoop(users, failing, i + 1,
            [st EXCEPT !.failed = @ + 1,
                       !.done = Append(@, Effect("send_message", "failed", users[i]))])
    ELSE PingLoop(users, failing, i + 1,
            [st EXCEPT !.sent = @ + 1,
                       !.done = Append(@, Effect("send_message", "sent", users[i]))])

\* morning_ping_job(context) for these known users
Ping(users, failing) == PingLoop(users, failing, 1, PingState(0, 0, 0, <<>>))

\* the dict morning_ping_job returns
PingCounts(users, p) ==
    IF users = <<>> THEN Counts(0, 0, 0, 0)
    ELSE Counts(Len(users), p.sent, p.failed, p.skipped)

\* an UPDATE that sets the status and forgets the other two columns
reset_all_statuses_status_only(d) ==
    [d EXCEPT !.current_status = [i \in 1..Len(@) |-> [@[i] EXCEPT !.status = "outside"]]]

\* reset_all_statuses(): every row of current_status is set to outside
reset_all_statuses(d) ==
    [d EXCEPT !.current_status =
        [i \in 1..Len(@) |->
            [@[i] EXCEPT !.status = "outside", !.lab_name = None,
                         !.last_entered_at = None]]]

\* cursor.rowcount of that UPDATE
reset_rowcount(d) == Len(d.current_status)

\* result = f"Automatic status check failed: {exc}" when run_status raised
MsgCheckFailed ==
    [text |-> "Automatic status check failed: {exc}", arg |-> "page_is_navigating"]

\* what run_status gives for the known users: a message each, or an exception
CheckResults(users, prefs) ==
    [ {users[i] : i \in 1..Len(users)} ->
          {MsgStatusClosed, MsgStatusInside, MsgNotInLab, MsgCheckFailed} ]

\* _auto_status_update(uid, username) when run_status gave result
_auto_status_update(d, prefs, uid, result) ==
    LET lab     == resolve_lab(prefs, uid)
        logged  == log_status_event(d, uid, lab, "auto_status", result,
                                    _infer_success(result))
        derived == _derive_current_state(lab, "auto_status", result)
    IN  IF derived # NoState
        THEN update_current_status(logged, uid, KnownUsername(d, uid), derived.status,
                                   IF derived.lab_name = None THEN "" ELSE derived.lab_name,
                                   derived.entered_at)
        ELSE logged

\* what the loop of midday_status_job has done so far: the database, the number
\* of users checked and the calls of run_status
CheckState(d, checked, done) == [db |-> d, checked |-> checked, done |-> done]

\* a loop that a failed status check ends
RECURSIVE CheckLoopUntilFailure(_, _, _, _, _)
CheckLoopUntilFailure(users, prefs, results, i, st) ==
    IF i > Len(users) THEN st
    ELSE IF results[users[i]] = MsgCheckFailed
    THEN [st EXCEPT !.done = Append(@, Effect("run_in_executor", "get_status", users[i]))]
    ELSE CheckLoopUntilFailure(users, prefs, results, i + 1,
            CheckState(_auto_status_update(st.db, prefs, users[i], results[users[i]]),
                       st.checked + 1,
                       Append(st.done, Effect("run_in_executor", "get_status", users[i]))))

\* the for loop of midday_status_job from its i-th user on
RECURSIVE CheckLoop(_, _, _, _, _)
CheckLoop(users, prefs, results, i, st) ==
    IF i > Len(users) THEN st
    ELSE CheckLoop(users, prefs, results, i + 1,
            CheckState(_auto_status_update(st.db, prefs, users[i], results[users[i]]),
                       st.checked + 1,
                       Append(st.done, Effect("run_in_executor", "get_status", users[i]))))

\* midday_status_job(context) for these known users
Check(users, prefs, results, d) ==
    CheckLoop(users, prefs, results, 1, CheckState(d, 0, <<>>))

\* the dict midday_status_job returns; checked is kept in the field sent
CheckCounts(users, c) ==
    IF users = <<>> THEN Counts(0, 0, 0, 0) ELSE Counts(Len(users), c.checked, 0, 0)

\* a handler that is not one of the three commands, when it has ended
Job(cmd, uid, data) ==
    [NoHandler EXCEPT !.cmd = cmd, !.uid = uid, !.lab = data, !.at = "done"]

\* morning_ping_job, run by the job queue at 10:00
morning_ping_job ==
    /\ Free
    /\ LET users == get_known_users(db, files.prefs)
       IN  \E failing \in SUBSET {users[i] : i \in 1..Len(users)} :
             LET p == Ping(users, failing)
             IN  /\ handler' = [Job("ping", "", "") EXCEPT !.counts = PingCounts(users, p)]
                 /\ effects' = p.done
    /\ UNCHANGED <<db, files, worker, threads>>

\* midday_status_job, while status_events has room for an event for each known user
MiddayStatusJob(room) ==
    /\ Free
    /\ LET users == get_known_users(db, files.prefs)
       IN  /\ Len(db.status_events) + Len(users) <= room
           /\ \E results \in CheckResults(users, files.prefs) :
                 LET c == Check(users, files.prefs, results, db)
                 IN  /\ db' = c.db
                     /\ handler' = [Job("check", "", "") EXCEPT
                                       !.counts = CheckCounts(users, c)]
                     /\ effects' = c.done
    /\ UNCHANGED <<files, worker, threads>>

\* midday_status_job, run by the job queue at 13:00
midday_status_job == MiddayStatusJob(MaxEvents)

\* the same job on a day when status_events has room for MaxChecks events
midday_status_job_daily == MiddayStatusJob(MaxChecks)

\* midnight_reset_job, run by the job queue at 00:00
midnight_reset_job ==
    /\ Free
    /\ db' = reset_all_statuses(db)
    /\ handler' = [Job("reset", "", "") EXCEPT
                      !.counts = Counts(reset_rowcount(db), 0, 0, 0)]
    /\ effects' = <<Effect("reset_all_statuses", "outside", "")>>
    /\ UNCHANGED <<files, worker, threads>>

\* ---- /admin and its buttons (bot.py:74-75, 370-455) ----
\* an _is_admin that lets everybody in
_is_admin_anyone(user_id) == TRUE

_is_admin(user_id) == user_id \in ADMIN_USER_IDS

MsgNotAuthorized == [text |-> "Not authorized.", arg |-> ""]

MsgAdminActions == [text |-> "Admin actions:", arg |-> "admin_keyboard"]

\* admin_cmd: the menu for an admin, a refusal for anybody else
admin_cmd ==
    /\ Free
    /\ \E uid \in Callers :
        /\ handler' = Job("admin", uid, "")
        /\ effects' = IF ~_is_admin(uid) THEN <<Reply(MsgNotAuthorized)>>
                      ELSE <<Reply(MsgAdminActions)>>
    /\ UNCHANGED <<db, files, worker, threads>>

\* the callback data the handler is registered for
AdminData ==
    { "admin:ping", "admin:check", "admin:reset", "admin:status", "admin:menu",
      "adminstatus:inside:0" }

\* query.edit_message_text(text)
Edit(text, arg) == Effect("edit_message_text", text, arg)

\* await query.answer(), the first thing admin_action_button does
Answered == Effect("answer", "", "")

\* admin_action_button: for an admin, the action the button names
admin_action_button ==
    /\ Free
    /\ \E uid \in Callers, data \in AdminData :
        LET users == get_known_users(db, files.prefs)
            h == Job("admin_button", uid, data)
        IN  IF ~_is_admin(uid)
            THEN /\ effects' = <<Answered>> \o <<Effect("answer", MsgNotAuthorized.text, "show_alert")>>
                 /\ handler' = h
                 /\ db' = db
            ELSE CASE data = "admin:menu" ->
                        /\ effects' = <<Answered>> \o <<Edit(MsgAdminActions.text, MsgAdminActions.arg)>>
                        /\ handler' = h
                        /\ db' = db
                   [] data \in {"admin:status", "adminstatus:inside:0"} ->
                        /\ effects' = <<Answered>> \o <<Edit("Current status snapshot",
                                             IF data = "admin:status" THEN "all"
                                             ELSE "inside")>>
                        /\ handler' = h
                        /\ db' = db
                   [] data = "admin:ping" ->
                        \E failing \in SUBSET {users[i] : i \in 1..Len(users)} :
                          LET p == Ping(users, failing)
                          IN  /\ effects' = <<Answered>> \o
                                    <<Edit("Sending reminder to known users...", "")>>
                                    \o p.done \o <<Edit("Reminder sent.", "")>>
                              /\ handler' = [h EXCEPT !.counts = PingCounts(users, p)]
                              /\ db' = db
                   [] data = "admin:check" ->
                        /\ Len(db.status_events) + Len(users) <= MaxEvents
                        /\ \E results \in CheckResults(users, files.prefs) :
                              LET c == Check(users, files.prefs, results, db)
                              IN  /\ db' = c.db
                                  /\ effects' = <<Answered>> \o
                                        <<Edit("Running status check for known users...", "")>>
                                        \o c.done
                                        \o <<Edit("Status check completed.", "")>>
                                  /\ handler' = [h EXCEPT !.counts = CheckCounts(users, c)]
                   [] data = "admin:reset" ->
                        /\ db' = reset_all_statuses(db)
                        /\ effects' = <<Answered>> \o
                              << Edit("Resetting all current statuses to outside...", ""),
                                 Effect("reset_all_statuses", "outside", ""),
                                 Edit("Reset completed.", "") >>
                        /\ handler' = [h EXCEPT
                                          !.counts = Counts(reset_rowcount(db), 0, 0, 0)]
    /\ UNCHANGED <<files, worker, threads>>

\* `deilabs setlab` with the default lab
setlab_default == Setlab(AllUsers, {DefaultLab})

NextAdmin ==
    \/ setlab_default
    \/ morning_ping_job
    \/ midday_status_job
    \/ midnight_reset_job
    \/ admin_cmd
    \/ admin_action_button

SpecAdmin == InitTwice /\ [][NextAdmin]_vars

(***************************************************************************)
(* Properties.                                                              *)
(***************************************************************************)
\* the names of the predicates an operation has consulted, in order
Names(s) == [i \in 1..Len(s) |-> s[i].pred]

IsPrefix(s, t) == Len(s) <= Len(t) /\ \A i \in 1..Len(s) : s[i] = t[i]

\* the operation consulted predicate name and got value
Consulted(name, value) == \E i \in 1..Len(seen) : seen[i] = Saw(name, value)

\* the operation has its result: it is leaving, or has left, the with-block
Decided == pc \in {"exit_page", "done"}

InOperation == op \in Operations

\* C1: when ensure_presence finds the page not expired, not closed and showing the
\* inside markers, it selects nothing, clicks nothing and returns the already-inside
\* message.
AlreadyInsideIsNoOp ==
    ( /\ op = "ensure_presence"
      /\ seen = <<Saw("expired", FALSE), Saw("closed", FALSE), Saw("inside", TRUE)>> )
    => /\ calls = <<>>
       /\ Decided
       /\ ret = Return(MsgAlreadyInside)

AlreadyInsideReturned ==
    /\ op = "ensure_presence" /\ pc = "done"
    /\ seen = <<Saw("expired", FALSE), Saw("closed", FALSE), Saw("inside", TRUE)>>
    /\ page.html = {"exit"}
    /\ ret = Return(MsgAlreadyInside)

\* C2: two ensure_presence calls in a row, the first on an open page that shows the
\* user outside, the portal showing the user inside after the first call's click and
\* when the second call looks: the first returns the presence-logged message, the
\* second the already-inside message, and the two calls make one enter click.
PunchTwiceClicksOnce ==
    ( /\ op = "ensure_presence" /\ prev.op = "ensure_presence" /\ pc = "done"
      /\ prev.seen = <<Saw("expired", FALSE), Saw("closed", FALSE), Saw("inside", FALSE)>>
      /\ prev.clicks >= 1
      /\ prev.inside
      /\ seen = <<Saw("expired", FALSE), Saw("closed", FALSE), Saw("inside", TRUE)>> )
    => /\ prev.kind = "return" /\ prev.text = MsgEntered(self).text
       /\ ret = Return(MsgAlreadyInside)
       /\ prev.clicks + OkClicks(calls) = 1

EnteredThenAlreadyInside ==
    /\ op = "ensure_presence" /\ prev.op = "ensure_presence" /\ pc = "done"
    /\ prev.seen = <<Saw("expired", FALSE), Saw("closed", FALSE), Saw("inside", FALSE)>>
    /\ prev.clicks = 1 /\ prev.inside
    /\ prev.text = MsgEntered(self).text
    /\ ret = Return(MsgAlreadyInside)
    /\ calls = <<>>

\* C3: when leave_lab finds the page not expired and without the inside markers, it
\* clicks nothing, writes no snapshot and returns a not-in-any-lab message; a closed
\* page changes the message only.
LeaveWhenOutsideIsNoOp ==
    ( /\ op = "leave_lab"
      /\ Len(seen) >= 2
      /\ seen[1] = Saw("expired", FALSE)
      /\ seen[2] = Saw("inside", FALSE) )
    => /\ Len(seen) = 3 /\ seen[3].pred = "closed"
       /\ calls = <<>>
       /\ snapshots = <<>>
       /\ Decided
       /\ ret = Return(IF seen[3].value THEN MsgNotInLabClosed ELSE MsgNotInLab)

NotInLabWhileClosed ==
    /\ op = "leave_lab" /\ pc = "done"
    /\ seen = <<Saw("expired", FALSE), Saw("inside", FALSE), Saw("closed", TRUE)>>
    /\ ret = Return(MsgNotInLabClosed)
    /\ calls = <<>>

\* C4: get_status changes nothing, whatever the page: no option is selected, nothing
\* is clicked, no snapshot or session file is written, from its start to its return.
StatusIsReadOnly ==
    [][ (op = "get_status" \/ op' = "get_status")
        => /\ authFile' = authFile
           /\ calls' = <<>>
           /\ snapshots' = <<>>
           /\ fs' = "unknown" ]_vars

StatusReturned ==
    /\ op = "get_status" /\ pc = "done"
    /\ context = "closed"
    /\ gotoCalls >= 1 /\ Len(seen) = 3 /\ logs # <<>>
    /\ ret = Return(MsgStatusInside)

\* C5 as stated: every operation consults expired, then closed, then inside, so that
\* a page that is closed and shows the inside markers is treated as closed.
PriorityIsTheSameEverywhere ==
    InOperation => IsPrefix(Names(seen), <<"expired", "closed", "inside">>)

\* C5: expired comes first in every operation; ensure_presence and get_status then
\* consult closed before inside and treat a closed page that shows the inside
\* markers as closed; leave_lab consults inside before closed, asks about closed
\* only when the user is not inside, and treats such a page as inside.
PriorityPerOperation ==
    /\ op \in {"ensure_presence", "get_status"} =>
         /\ IsPrefix(Names(seen), <<"expired", "closed", "inside">>)
         /\ Consulted("expired", TRUE) => Len(seen) = 1
         /\ Consulted("closed", TRUE) =>
              /\ Len(seen) = 2 /\ calls = <<>>
              /\ ret = Return(IF op = "get_status" THEN MsgStatusClosed
                              ELSE MsgLabsClosedPunch)
    /\ op = "leave_lab" =>
         /\ IsPrefix(Names(seen), <<"expired", "inside", "closed">>)
         /\ Consulted("expired", TRUE) => Len(seen) = 1
         /\ Consulted("inside", TRUE) =>
              /\ Len(seen) = 2
              /\ ret.text \notin {MsgNotInLabClosed.text, MsgNotInLab.text}
         /\ (Decided /\ ret.text \in {MsgNotInLabClosed.text, MsgNotInLab.text}) =>
              Names(seen) = <<"expired", "inside", "closed">>

\* leave_lab goes for the exit button on a page that is closed and shows the markers
LeaveClicksOnClosedPage ==
    /\ op = "leave_lab" /\ pc = "exit_click"
    /\ {"closed", "exit"} \subseteq page.html
    /\ seen = <<Saw("expired", FALSE), Saw("inside", TRUE)>>
    /\ calls # <<>>

\* C6: when page.goto raises k transient errors and then succeeds, _open_lab_page
\* returns after k + 1 calls of goto and k sleeps, the i-th of i * nav_retry_delay_ms;
\* with transient errors only it gives up on none of the first nav_retries attempts.
RetryBacksOffLinearly ==
    InOperation =>
      LET k == Len(gotoErrors)
      IN  /\ gotoCalls = k + 1 =>
              /\ k <= self.nav_retries
              /\ \A i \in 1..k : gotoErrors[i]
              /\ waits = [i \in 1..k |-> i * nav_retry_delay_ms]
              /\ (pc # "open_lab_page") => lastGoto = GotoOk
          /\ (Decided /\ gotoCalls = k /\ k >= 1 /\ \A i \in 1..k : gotoErrors[i]) =>
              k = self.nav_retries + 1

OpenedAfterTwoRetries ==
    /\ InOperation /\ pc = "wait_page_ready"
    /\ self.nav_retries = 2
    /\ gotoErrors = <<TRUE, TRUE>>
    /\ gotoCalls = 3
    /\ waits = <<nav_retry_delay_ms, 2 * nav_retry_delay_ms>>

\* C7: a goto error that is not transient ends _open_lab_page at once, on whichever
\* attempt it comes: the error is raised, goto is not called again and nothing
\* sleeps after it.
OtherErrorsAreNotRetried ==
    InOperation =>
      \A i \in 1..Len(gotoErrors) :
        ~gotoErrors[i] =>
          /\ i = Len(gotoErrors)
          /\ gotoCalls = i
          /\ Len(waits) = i - 1
          /\ Decided
          /\ ~_is_retryable_navigation_error(lastGoto)
          /\ ret = Raise(lastGoto)

ProtocolErrorRaisedAtOnce ==
    /\ InOperation /\ pc = "done"
    /\ self.nav_retries = 2
    /\ gotoErrors = <<FALSE>>
    /\ gotoCalls = 1 /\ waits = <<>>
    /\ ret = Raise([type |-> "PlaywrightError", msg |-> "protocol_error"])

\* C8: when every one of the nav_retries + 1 attempts raises a transient error,
\* _open_lab_page has called goto nav_retries + 1 times and slept nav_retries times,
\* the operation raises the last error, and it has classified, selected, clicked
\* and written nothing.
ExhaustedRetriesRaise ==
    ( /\ InOperation
      /\ Len(gotoErrors) = self.nav_retries + 1
      /\ \A i \in 1..Len(gotoErrors) : gotoErrors[i] )
    => /\ gotoCalls = self.nav_retries + 1
       /\ Len(waits) = self.nav_retries
       /\ Decided
       /\ ret = Raise(lastGoto)
       /\ seen = <<>> /\ calls = <<>>
       /\ snapshots = <<>> /\ fs = "unknown" /\ authFile = "present"

GaveUpAfterThreeAttempts ==
    /\ InOperation /\ pc = "done"
    /\ self.nav_retries = 2
    /\ gotoErrors = <<TRUE, TRUE, TRUE>>
    /\ gotoCalls = 3 /\ Len(waits) = 2
    /\ ret.kind = "raise"

\* C9: in all three operations a session found expired is a result, not an error:
\* the operation returns the session-expired message with the user id in it, and
\* selects and clicks nothing.
ExpiredSessionIsReturned ==
    (InOperation /\ Consulted("expired", TRUE))
    => /\ seen = <<Saw("expired", TRUE)>>
       /\ Decided
       /\ ret.kind = "return"
       /\ ret.text = SessionExpiredText
       /\ ret.arg = self.user_id /\ self.user_id \in UserIds
       /\ calls = <<>>

ExpiredSessionOnLeave ==
    /\ op = "leave_lab" /\ pc = "done"
    /\ page.url = "login"
    /\ seen = <<Saw("expired", TRUE)>>
    /\ ret.kind = "return" /\ ret.arg = self.user_id

\* C10: when ensure_presence finds the page not expired and closed, it returns the
\* labs-closed message and selects and clicks nothing, inside markers or not.
ClosedLabsAreNotEntered ==
    ( /\ op = "ensure_presence"
      /\ Consulted("expired", FALSE)
      /\ Consulted("closed", TRUE) )
    => /\ Decided
       /\ ret = Return(MsgLabsClosedPunch)
       /\ calls = <<>>

ClosedWithInsideMarkers ==
    /\ op = "ensure_presence" /\ pc = "done"
    /\ {"closed", "exit"} \subseteq page.html
    /\ seen = <<Saw("expired", FALSE), Saw("closed", TRUE)>>
    /\ ret = Return(MsgLabsClosedPunch)
    /\ calls = <<>>

\* the entries of calls made with api, in order
Tried(api) == SelectSeq(calls, LAMBDA c : c.api = api)

\* save_state(page, tag) was called and came back: it wrote the snapshot or logged
\* that it could not
SnapshotTaken(tag) ==
    \E i \in 1..Len(logs) :
        logs[i].event \in {"save_state", "save_state_error"} /\ logs[i].detail = tag

\* the values of the three classifier predicates on page p
Triple(p) == <<_is_session_expired(p), _are_labs_closed(p), _is_inside_lab(p)>>

\* C11: whatever an operation returns is one of its named outcomes, and the values
\* of the three predicates fix which: ensure_presence maps expired, closed, inside
\* and outside to session-expired, labs-closed, already-inside and one of the four
\* enter outcomes, leave_lab maps expired, not inside and inside to session-expired,
\* one of the two not-in-any-lab messages and one of the three leave outcomes,
\* get_status maps them to its four messages; the branch taken depends on the three
\* values only.
OutcomesAreNamed ==
    /\ (InOperation /\ Decided /\ ret.kind = "return") =>
         /\ seen # <<>>
         /\ op = "ensure_presence" =>
              /\ Consulted("expired", TRUE) => ret = Return(_session_expired_message(self))
              /\ Consulted("closed", TRUE) => ret = Return(MsgLabsClosedPunch)
              /\ Consulted("inside", TRUE) => ret = Return(MsgAlreadyInside)
              /\ Consulted("inside", FALSE) =>
                   ret \in { Return(MsgEntered(self)), Return(MsgNoSelect(self)),
                             Return(MsgNoEnterButton), Return(MsgEnterUncertain) }
         /\ op = "leave_lab" =>
              /\ Consulted("expired", TRUE) => ret = Return(_session_expired_message(self))
              /\ Consulted("inside", FALSE) =>
                   ret = Return(IF Consulted("closed", TRUE) THEN MsgNotInLabClosed
                                ELSE MsgNotInLab)
              /\ Consulted("inside", TRUE) =>
                   ret \in { Return(MsgNoExitButton), Return(MsgExited),
                             Return(MsgLeaveUncertain) }
         /\ op = "get_status" =>
              /\ Consulted("expired", TRUE) => ret = Return(_session_expired_message(self))
              /\ Consulted("closed", TRUE) => ret = Return(MsgStatusClosed)
              /\ Consulted("inside", TRUE) => ret = Return(MsgStatusInside)
              /\ Consulted("inside", FALSE) => ret = Return(MsgNotInLab)
    /\ pc = "classify" =>
         \A q \in Pages :
            (~ContentRaises(page) /\ ~ContentRaises(q) /\ Triple(q) = Triple(page)) =>
                /\ EnsureBranch(q) = EnsureBranch(page)
                /\ LeaveBranch(q) = LeaveBranch(page)
                /\ StatusBranch(q) = StatusBranch(page)

StatusSaysNotInLab ==
    /\ op = "get_status" /\ pc = "done"
    /\ seen = <<Saw("expired", FALSE), Saw("closed", FALSE), Saw("inside", FALSE)>>
    /\ ret = Return(MsgNotInLab)

\* C12 as stated: ensure_presence clicks an enter button only after a lab was
\* selected in the same call, and when every lab-select candidate is absent or
\* fails it returns the no-select message, having taken a snapshot and clicked
\* nothing.
NoSelectionMeansNoClick ==
    op = "ensure_presence" =>
      /\ \A i \in 1..Len(calls) :
            calls[i].api = "click" =>
                \E j \in 1..(i - 1) : calls[j].api = "select_option" /\ calls[j].ok
      /\ ( /\ Len(Tried("select_option")) = Len(LAB_SELECTORS)
           /\ \A i \in 1..Len(calls) : ~calls[i].ok )
         => /\ Decided
            /\ ret = Return(MsgNoSelect(self))
            /\ SnapshotTaken("no_select")
            /\ Tried("click") = <<>>

\* no lab could be selected and screenshots/ could not be created: the call raises
NoSelectRaises ==
    /\ op = "ensure_presence" /\ pc = "done"
    /\ Len(Tried("select_option")) = Len(LAB_SELECTORS)
    /\ \A i \in 1..Len(calls) : ~calls[i].ok
    /\ fs = "mkdir_fails"
    /\ ret = Raise(MkdirError)

\* C13 as stated: after an enter click that worked, ensure_presence returns the
\* presence-logged message if the re-check after the wait finds the page inside,
\* and otherwise takes a snapshot and returns the could-not-confirm message.
EnterOutcomeFollowsRecheck ==
    ( /\ op = "ensure_presence" /\ Decided
      /\ OkClicks(calls) >= 1
      /\ ~ContentRaises(page) )
    => IF _is_inside_lab(page)
       THEN ret = Return(MsgEntered(self))
       ELSE ret = Return(MsgEnterUncertain) /\ SnapshotTaken("enter_uncertain")

\* the re-check did not find the user inside and screenshots/ could not be created
EnterUncertainRaises ==
    /\ op = "ensure_presence" /\ pc = "done"
    /\ OkClicks(calls) = 1
    /\ ~ContentRaises(page) /\ ~_is_inside_lab(page)
    /\ fs = "mkdir_fails"
    /\ ret = Raise(MkdirError)

\* C14 as stated: leave_lab on an inside page returns the no-exit-button message,
\* with a snapshot, when no exit candidate could be clicked; after a click that
\* worked it returns the exited message when the re-check finds the page not inside
\* and the still-inside message, with a snapshot, when it finds it inside.
LeaveOutcomeFollowsRecheck ==
    ( /\ op = "leave_lab" /\ Decided
      /\ Consulted("inside", TRUE) )
    => IF OkClicks(calls) = 0
       THEN ret = Return(MsgNoExitButton) /\ SnapshotTaken("no_exit_button")
       ELSE ~ContentRaises(page) =>
              IF _is_inside_lab(page)
              THEN ret = Return(MsgLeaveUncertain) /\ SnapshotTaken("exit_uncertain")
              ELSE ret = Return(MsgExited)

\* no exit button could be clicked and screenshots/ could not be created
NoExitButtonRaises ==
    /\ op = "leave_lab" /\ pc = "done"
    /\ Len(calls) = Len(EXIT_BUTTON_SELECTORS) /\ OkClicks(calls) = 0
    /\ fs = "mkdir_fails"
    /\ ret = Raise(MkdirError)

\* the catalog a loop of the running operation goes through
Catalog(api) ==
    IF api = "select_option" THEN LAB_SELECTORS
    ELSE IF op = "leave_lab" THEN EXIT_BUTTON_SELECTORS
    ELSE ENTER_BUTTON_SELECTORS

\* the event a loop logs for the candidate that worked
UsedEvent(api) ==
    IF api = "select_option" THEN "select_lab"
    ELSE IF op = "leave_lab" THEN "click_exit"
    ELSE "click_enter"

\* C15: each selector loop (lab select, enter click, exit click) tries its catalog
\* in order from the first entry, stops at the first candidate that works, and logs
\* that candidate's selector and no other.
FirstWorkingCandidateWins ==
    InOperation =>
      \A api \in {"select_option", "click"} :
        LET t == Tried(api)
            used == {i \in 1..Len(logs) : logs[i].event = UsedEvent(api)}
        IN  /\ Len(t) <= Len(Catalog(api))
            /\ \A i \in 1..Len(t) : t[i].sel = i /\ (t[i].ok => i = Len(t))
            /\ IF t # <<>> /\ t[Len(t)].ok
               THEN /\ Cardinality(used) = 1
                    /\ \A i \in used : logs[i].detail = Catalog(api)[Len(t)]
               ELSE used = {}

LastCandidatesWork ==
    /\ op = "ensure_presence" /\ pc = "done"
    /\ Len(calls) = Len(LAB_SELECTORS) + Len(ENTER_BUTTON_SELECTORS)
    /\ calls[Len(LAB_SELECTORS)] =
         [api |-> "select_option", sel |-> Len(LAB_SELECTORS), ok |-> TRUE]
    /\ calls[Len(calls)] =
         [api |-> "click", sel |-> Len(ENTER_BUTTON_SELECTORS), ok |-> TRUE]
    /\ \E i \in 1..Len(logs) :
         logs[i].event = "click_enter" /\ logs[i].detail = "button[type='submit']"

\* C16 as stated: no failure of a debug snapshot (creating screenshots/, taking the
\* screenshot, writing the html) reaches the caller: the operation never ends with
\* save_state's exception, and a snapshot that could not be written is logged.
SnapshotFailuresAreSwallowed ==
    InOperation =>
      /\ ret # Raise(MkdirError)
      /\ fs = "write_fails" =>
           /\ snapshots = <<>>
           /\ \E i \in 1..Len(logs) : logs[i].event = "save_state_error"

\* `deilabs punch --debug` where screenshots/ cannot be created: the first snapshot
\* ends the call before the page is classified
DebugSnapshotRaises ==
    /\ op = "ensure_presence" /\ pc = "done"
    /\ self.debug
    /\ fs = "mkdir_fails"
    /\ seen = <<>> /\ snapshots = <<>>
    /\ ret = Raise(MkdirError)

\* C17: Logger.log never lets an exception out when logs/ or logs/deilabs.log cannot
\* be written: every such call prints its warning on stderr instead, and the
\* operation goes on to the result the page calls for.
LoggingNeverRaises ==
    /\ \A i \in 1..Len(logs) :
         /\ ~logs[i].escaped
         /\ logs[i].written <=> logDisk = "ok"
         /\ logs[i].warned <=> logDisk # "ok"
    /\ (InOperation /\ pc # "session_page") => logs # <<>>
    /\ (op = "get_status" /\ Decided /\ Len(seen) = 3) =>
         ret = Return(IF seen[3].value THEN MsgStatusInside ELSE MsgNotInLab)
    /\ (op = "ensure_presence" /\ Decided /\ Consulted("inside", TRUE)) =>
         ret = Return(MsgAlreadyInside)

EnteredWithoutLogFile ==
    /\ op = "ensure_presence" /\ pc = "done"
    /\ logDisk = "open_fails"
    /\ Len(logs) >= 4
    /\ \A i \in 1..Len(logs) : logs[i].warned /\ ~logs[i].written
    /\ ret = Return(MsgEntered(self))

\* C19 as stated: when an operation has returned or raised, no browsing context it
\* created is still open, whatever raised on the way.
ContextsAreClosed ==
    (InOperation /\ pc = "done") => context # "open"

\* context.new_page() raised in the shared browser: the context is still open
ContextLeftOpen ==
    /\ InOperation /\ pc = "done"
    /\ self.reuse_browser /\ browser = "up"
    /\ context = "open"
    /\ ret = Raise(NewPageError)

\* C20: with reuse_browser, the worker launches a browser only when it has no
\* connected one (so once, on first use, while the browser stays connected), no step
\* of an operation takes the shared browser down, and it is closed only by
\* shutdown_shared_browsers.
SharedBrowserIsKept ==
    [][ /\ launches' # launches =>
             /\ launches' = launches + 1
             /\ pc = "session_page" /\ self.reuse_browser
             /\ browser # "up" /\ browser' = "up"
        /\ (browser = "none") <=> (launches = 0)
        /\ (browser = "up" /\ browser' # "up") => (pc = "idle" /\ pc' = "idle")
        /\ (browser # "closed" /\ browser' = "closed") =>
             (pc = "idle" /\ runtimes > 0 /\ runtimes' = 0) ]_vars

SharedBrowserOutlivesFailure ==
    /\ InOperation /\ pc = "done"
    /\ self.reuse_browser
    /\ browser = "up" /\ launches = 1 /\ runtimes = 1
    /\ context = "closed"
    /\ ret.kind = "raise"

\* C18: every call of ensure_presence, leave_lab and get_status ends, with a result
\* or an exception, given that every browser call comes back and the clock
\* advances: page.goto is called at most nav_retries + 1 times, a polling loop
\* sleeps no longer than to its deadline, a selector loop tries each entry of its
\* catalog at most once, and the wait for readiness always gives way to the
\* classification.
OperationsTerminate ==
    /\ [](InOperation =>
            /\ gotoCalls <= self.nav_retries + 1
            /\ polls <= MaxPolls
            /\ \A api \in {"select_option", "click"} :
                  /\ Len(Tried(api)) <= Len(Catalog(api))
                  /\ \A i, j \in 1..Len(Tried(api)) :
                        Tried(api)[i].sel = Tried(api)[j].sel => i = j)
    /\ (pc = "wait_page_ready") ~> (pc = "classify")
    /\ (pc = "session_page") ~> (pc = "done" /\ ret.kind \in {"return", "raise"})

\* a call that used up its navigation attempts, waited for readiness to its
\* deadline on a page that never settled, and ended
EndedAfterReadinessTimeout ==
    /\ InOperation /\ pc = "done"
    /\ self.nav_retries = MaxNavRetries
    /\ gotoCalls = self.nav_retries + 1
    /\ page.navigating /\ page.url = "lab"
    /\ ret = Raise(ContentError)

\* C21: when a reuse_browser call finds the worker's cached browser disconnected
\* (is_connected() answers False, or raises), the cached runtime is not handed out:
\* a new browser is launched, is the worker's runtime from then on and is added to
\* the registry, and the call goes on to open the lab page on it; the call raises
\* only if the launch itself, the stored session or the new page fails.
DisconnectedBrowserIsReplaced ==
    [][ (pc = "session_page" /\ self.reuse_browser /\ browser \in {"down", "broken"}
         /\ pc' # pc) =>
           \/ /\ browser' = "up"
              /\ launches' = launches + 1
              /\ runtimes' = runtimes + 1
              /\ \/ pc' = "open_lab_page" /\ context' = "open" /\ ret' = NoRet
                 \/ pc' = "done" /\ ret' \in {Raise(StorageStateError), Raise(NewPageError)}
           \/ /\ ret' = Raise(LaunchError)
              /\ UNCHANGED pool ]_vars

\* the worker's first browser crashed, and the next call was answered on a second one
AnsweredOnRelaunchedBrowser ==
    /\ InOperation /\ pc = "done"
    /\ self.reuse_browser
    /\ browser = "up" /\ launches = 2 /\ runtimes = 2
    /\ context = "closed"
    /\ ret.kind = "return"

\* C22 as stated: every browser process a worker created, and that no shutdown has
\* dealt with yet, is in the registry.
EveryBrowserIsRegistered ==
    \A i \in 1..Len(procs) :
        (procs[i].closes = 0 /\ procs[i].stops = 0) => i \in Registered(_runtimes)

\* a browser launched by _get_thread_runtime is in the registry, once, until a
\* shutdown takes it out; a browser launched by a call without reuse_browser never
\* is, and lives no longer than the call that launched it
SharedBrowsersAreRegistered ==
    /\ \A k, l \in 1..Len(_runtimes) : _runtimes[k] = _runtimes[l] => k = l
    /\ \A i \in 1..Len(procs) :
          IF procs[i].shared
          THEN /\ (i \in Registered(_runtimes)) <=> (procs[i].closes = 0)
               /\ procs[i].stops = procs[i].closes
          ELSE /\ i \notin Registered(_runtimes)
               /\ procs[i].state # "closed" =>
                     \E t \in Threads : session[t].at = "yielded" /\ session[t].on = i

\* a step that takes anything out of the registry empties it, and calls close() on
\* the browser and stop() on the driver of every runtime that was in it
ShutdownReachesEveryRuntime ==
    (\E i \in Registered(_runtimes) : i \notin Registered(_runtimes')) =>
        /\ _runtimes' = <<>>
        /\ \A i \in Registered(_runtimes) :
              /\ procs'[i].closes = procs[i].closes + 1
              /\ procs'[i].stops = procs[i].stops + 1

\* C22: every browser process launched for sharing (reuse_browser on) is recorded in
\* the global registry, and one call of shutdown_shared_browsers empties the registry
\* and attempts close() on every registered browser and stop() on every registered
\* driver, going on with the remaining entries when closing one of them raises.  A
\* browser launched by a call without reuse_browser is not recorded; the call itself
\* closes it.
RegistryIsShutDownWhole ==
    []SharedBrowsersAreRegistered /\ [][ShutdownReachesEveryRuntime]_vars

\* a shutdown in which neither close() nor stop() of the first runtime went through
\* and the second runtime was shut all the same
ShutdownWentOnAfterRaise ==
    /\ Len(procs) = 2 /\ _runtimes = <<>>
    /\ procs[1].shared /\ procs[1].closes = 1 /\ procs[1].stops = 1
    /\ procs[1].state = "up"
    /\ procs[2].shared /\ procs[2].closes = 1 /\ procs[2].stops = 1
    /\ procs[2].state = "closed"

\* C23: a live browser process is never shared across worker threads: whatever the
\* interleaving of calls on different threads (two calls for the same user id
\* included), the context of a call is on a browser launched by the call's own
\* thread, a thread's cached runtime is one it launched itself, and no two threads
\* hold contexts on the same browser process.
BrowsersAreNotShared ==
    /\ \A t \in Threads :
          /\ session[t].at = "yielded" => procs[session[t].on].owner = t
          /\ _thread_local[t] # 0 =>
                /\ procs[_thread_local[t]].owner = t
                /\ procs[_thread_local[t]].shared
    /\ \A t, u \in Threads :
          (t # u /\ session[t].at = "yielded" /\ session[u].at = "yielded") =>
              session[t].on # session[u].on

\* two calls for the same user run at once on two threads, each on the live shared
\* browser of its own thread
SameUserOnTwoThreads ==
    /\ session["w1"].at = "yielded" /\ session["w2"].at = "yielded"
    /\ session["w1"].reuse /\ session["w2"].reuse
    /\ session["w1"].uid = session["w2"].uid
    /\ session["w1"].on # session["w2"].on
    /\ procs[session["w1"].on].state = "up" /\ procs[session["w2"].on].state = "up"
    /\ _runtimes = <<1, 2>>

\* the calls of context.storage_state(path=...) recorded for the running call
Saves == Tried("storage_state")

\* C24: the stored session is read-only for the automated operations: no step of
\* ensure_presence, leave_lab or get_status, however it ends, writes or deletes
\* auth_<user_id>.json; only interactive_login writes it, once, after input() has
\* returned the user's confirmation, and not when there is no DISPLAY.
SessionBlobIsReadOnly ==
    [][ /\ InOperation' => (authFile' = authFile /\ Saves' = <<>>)
        /\ authFile' # authFile => (op' = "interactive_login" /\ Len(Saves') = 1)
        /\ op' = "interactive_login" =>
              /\ Len(Saves') <= 1
              /\ Saves' # <<>> =>
                    /\ calls' = <<[api |-> "input", sel |-> 0, ok |-> TRUE], Saves'[1]>>
                    /\ authFile' = "present"
                    /\ ret'.kind = "return"
              /\ ret' = Raise(NoDisplayError) => (Saves' = <<>> /\ authFile' = authFile)
              /\ Saves' = <<>> => authFile' = authFile ]_vars

\* the user confirmed the login and the session was saved
SessionSavedAfterConfirmation ==
    /\ op = "interactive_login" /\ pc = "done"
    /\ calls = <<[api |-> "input", sel |-> 0, ok |-> TRUE],
                 [api |-> "storage_state", sel |-> 0, ok |-> TRUE]>>
    /\ authFile = "present"
    /\ ret.kind = "return"

\* C25: what get_status returns is decided by the page it classified: the
\* session-expired message (which names the login command and the user id) when the
\* session is expired; else exactly "Laboratories are currently closed." when the
\* labs are closed; else exactly "You are already inside the lab." when the page
\* shows the inside markers; else "You are not in any lab.".
StatusDecisionTable ==
    (op = "get_status" /\ pc \in {"exit_page", "done"} /\ ret.kind = "return") =>
        /\ ~ExpiredRaises(page)
        /\ IF _is_session_expired(page)
           THEN /\ ret.text = SessionExpiredText
                /\ ret.arg = self.user_id /\ self.user_id \in UserIds
           ELSE /\ ~ContentRaises(page)
                /\ ret.arg = ""
                /\ ret.text =
                     IF _are_labs_closed(page) THEN "Laboratories are currently closed."
                     ELSE IF _is_inside_lab(page) THEN "You are already inside the lab."
                     ELSE "You are not in any lab."

\* a status check against a page that shows the inside markers, with the labs open
StatusSaysInside ==
    /\ op = "get_status" /\ pc = "done"
    /\ ~_is_session_expired(page) /\ ~_are_labs_closed(page) /\ _is_inside_lab(page)
    /\ ret.kind = "return"
    /\ ret.text = "You are already inside the lab."

\* the client the bot's running handler has built
Client == DeilabsClient(handler.uid, handler.lab, FALSE, 0, TRUE)

\* the message the client call of the running handler returned
Result == [text |-> handler.out.text, arg |-> handler.out.arg]

CommandsRecordThenReply ==
    [][ (handler.cmd \in Commands /\ handler.at = "client" /\ handler'.at = "done") =>
          LET r       == [text |-> handler'.out.text, arg |-> handler'.out.arg]
              derived == _derive_current_state(handler.lab, handler.cmd, r)
              event   == [ user_id |-> handler.uid, lab_name |-> handler.lab,
                           command |-> handler.cmd, status_text |-> r,
                           success |-> _infer_success(r) ]
              row     == Row(handler.uid, Username(handler.uid), derived.status,
                             IF derived.lab_name = None THEN "" ELSE derived.lab_name,
                             derived.entered_at)
              before  == << Reply(Progress(handler.cmd, handler.lab)),
                            Effect("run_in_executor", Runs(handler.cmd), handler.uid) >>
          IN  /\ effects = before
              /\ db'.status_events = Append(db.status_events, event)
              /\ \A u \in AllUsers :
                    RowsOf(db', u) =
                       IF derived # NoState /\ u = handler.uid THEN <<row>>
                       ELSE RowsOf(db, u)
              /\ Len(db'.current_status) =
                    Len(db.current_status)
                    + (IF derived # NoState /\ RowOf(db, handler.uid) = NoRow THEN 1
                       ELSE 0)
              /\ db'.session_uploads = db.session_uploads
              /\ effects' =
                    before
                    \o << Effect("log_status_event", r.text, r.arg) >>
                    \o (IF derived # NoState
                        THEN << Effect("update_current_status", derived.status,
                                       handler.uid) >>
                        ELSE << >>)
                    \o << Reply(r) >> ]_vars

\* /exit was answered with the uncertain message, which gives no state: the event
\* was recorded and the reply sent, and the user still has no row
UncertainExitLeftNoRow ==
    /\ handler.cmd = "exit" /\ handler.at = "done"
    /\ Result = MsgLeaveUncertain
    /\ Len(db.status_events) = 1
    /\ db.status_events[1].success = "False"
    /\ RowOf(db, handler.uid) = NoRow
    /\ Len(effects) = 4
    /\ effects[3].kind = "log_status_event" /\ effects[4] = Reply(MsgLeaveUncertain)

\* the document the upload handler that ends in this step was given
Uploaded == CHOOSE f \in Uploads : f.name = handler'.lab

\* C28 as stated: upload_document replaces auth_<uid>.json only with a file that
\* passed _validate_session_file: when the file does not pass, the auth file is as
\* it was (absent if it was absent), the downloaded audit copy is removed and no
\* session upload is logged; when it passes, the auth file is the uploaded file and
\* exactly one upload is logged.
OnlyValidatedSessionsAreStored ==
    [][ (handler'.cmd = "upload" /\ handler'.lab # "") =>
          LET v == _validate_session_file(Uploaded)
          IN  IF ~v.raised /\ v.ok
              THEN /\ files'.auth[handler'.uid] = Uploaded.name
                   /\ \A u \in Callers \ {handler'.uid} : files'.auth[u] = files.auth[u]
                   /\ db'.session_uploads =
                         Append(db.session_uploads,
                                [ user_id |-> handler'.uid, source |-> Uploaded.name,
                                  stored |-> "auth" ])
              ELSE /\ files'.auth = files.auth
                   /\ files'.audit.name = "absent"
                   /\ db'.session_uploads = db.session_uploads ]_vars

\* a photo sent as a document: _validate_session_file raised, the user got no reply
\* and the audit copy is still under uploads/
UndecodableUploadIsKept ==
    /\ handler.cmd = "upload" /\ handler.at = "raised"
    /\ handler.out = Raise(UnicodeDecodeError)
    /\ files.audit = [uid |-> handler.uid, name |-> "photo.jpg"]
    /\ files.auth[handler.uid] = "absent"
    /\ effects = <<>>

\* C29: no admin action runs for a caller whose user id is not in ADMIN_USER_IDS:
\* admin_cmd replies "Not authorized." and shows no menu, and admin_action_button
\* answers the same and runs none of the reminder, status-check, reset and
\* status-view actions: nothing is sent or edited and no row is changed.
UnauthorizedRunsNothing ==
    [][ ( /\ handler' # handler
          /\ handler'.cmd \in {"admin", "admin_button"}
          /\ handler'.uid \notin ADMIN_USER_IDS ) =>
            /\ db' = db
            /\ files' = files
            /\ handler'.counts = NoHandler.counts
            /\ effects' =
                 IF handler'.cmd = "admin" THEN <<Reply(MsgNotAuthorized)>>
                 ELSE <<Answered, Effect("answer", "Not authorized.", "show_alert")>> ]_vars

\* somebody who is no admin pressed the reset button while a user was inside: the
\* row is as it was
ResetRefused ==
    /\ handler.cmd = "admin_button" /\ handler.uid = "42" /\ handler.lab = "admin:reset"
    /\ effects = <<Answered, Effect("answer", "Not authorized.", "show_alert")>>
    /\ \E u \in AllUsers : RowOf(db, u).status = "inside"

\* the send_message calls among these effects
Sends(es) == SelectSeq(es, LAMBDA e : e.kind = "send_message")

\* whether this step is a run of morning_ping_job, by the job queue or by the
\* reminder button of an admin
PingRuns ==
    /\ handler' # handler \/ effects' # effects
    /\ \/ handler'.cmd = "ping"
       \/ /\ handler'.cmd = "admin_button" /\ handler'.lab = "admin:ping"
          /\ handler'.uid \in ADMIN_USER_IDS

\* C30: morning_ping_job tries at most one send per known user and returns counts
\* with sent + failed + skipped = total = the number of known users; a send that
\* fails is counted as failed and the users after it still get their reminder.
PingCountsAddUp ==
    [][ PingRuns =>
        LET users == get_known_users(db, files.prefs)
            c     == handler'.counts
            s     == Sends(effects')
        IN  /\ c.total = Len(users)
            /\ c.sent + c.failed + c.skipped = c.total
            /\ \A i, j \in 1..Len(s) : s[i].arg = s[j].arg => i = j
            /\ \A i \in 1..Len(users) :
                  IF IsInt(users[i])
                  THEN \E k \in 1..Len(s) : s[k].arg = users[i]
                  ELSE \A k \in 1..Len(s) : s[k].arg # users[i]
            /\ c.sent = Cardinality({k \in 1..Len(s) : s[k].text = "sent"})
            /\ c.failed = Cardinality({k \in 1..Len(s) : s[k].text = "failed"})
            /\ c.skipped = Cardinality({i \in 1..Len(users) : ~IsInt(users[i])}) ]_vars

\* three known users: the first send failed, the second went through, and the
\* third user id is no chat id
RemindedAfterFailure ==
    /\ handler.cmd = "ping"
    /\ handler.counts = Counts(3, 1, 1, 1)
    /\ effects = << Effect("send_message", "failed", "174325172"),
                    Effect("send_message", "sent", "42") >>

(***************************************************************************)
(* The midday job on its own: the preferences name the users, the job      *)
(* checks them.                                                             *)
(***************************************************************************)
NextMidday ==
    \/ setlab_default
    \/ midday_status_job_daily

SpecMidday == InitTwice /\ [][NextMidday]_vars

\* the rows of status_events written in this step
NewEvents == SubSeq(db'.status_events, Len(db.status_events) + 1, Len(db'.status_events))

\* whether this step is a run of midday_status_job
CheckRuns == handler'.cmd = "check" /\ (db' # db \/ handler' # handler \/ effects' # effects)

\* C31: midday_status_job runs the automatic status update once for every known
\* user, in their order, and returns checked = total; a status check that raised
\* is logged as an event with the failure text, and the users after it are
\* checked all the same.
MiddayChecksEveryUser ==
    [][ CheckRuns =>
        LET users == get_known_users(db, files.prefs)
        IN  /\ handler'.counts.total = Len(users)
            /\ handler'.counts.sent = handler'.counts.total
            /\ effects' = [i \in 1..Len(users) |->
                              Effect("run_in_executor", "get_status", users[i])]
            /\ Len(db'.status_events) = Len(db.status_events) + Len(users)
            /\ \A i \in 1..Len(users) :
                  /\ NewEvents[i].user_id = users[i]
                  /\ NewEvents[i].command = "auto_status"
                  /\ NewEvents[i].lab_name = resolve_lab(files.prefs, users[i])
                  /\ NewEvents[i].status_text \in
                        {MsgStatusClosed, MsgStatusInside, MsgNotInLab, MsgCheckFailed}
                  /\ NewEvents[i].success = _infer_success(NewEvents[i].status_text)
                  /\ NewEvents[i].status_text # MsgCheckFailed =>
                        RowOf(db', users[i]).status \in {"inside", "outside", "unknown"} ]_vars

\* two users were checked: the check of the first raised, which is in the events,
\* and the second was found inside
CheckedAfterFailure ==
    /\ handler.cmd = "check" /\ handler.counts = Counts(2, 2, 0, 0)
    /\ Len(db.status_events) = 2
    /\ db.status_events[1].status_text = MsgCheckFailed
    /\ db.status_events[1].user_id = "174325172"
    /\ db.status_events[2].status_text = MsgStatusInside
    /\ RowOf(db, "42").status = "inside"
    /\ RowOf(db, "174325172") = NoRow

(***************************************************************************)
(* The table current_status on its own (db.py): update_current_status and  *)
(* reset_all_statuses called in any order, as the handlers and the jobs    *)
(* call them.  effects keeps the calls made so far.                        *)
(***************************************************************************)
\* one call of the two functions, with the row it was given
DbCall(kind, row) == [kind |-> kind, row |-> row]

\* the usernames a Telegram user has had
Usernames == {None, "aidin", "aidin_2"}

\* status, lab_name and last_entered_at as the callers pass them
Tracked ==
    { <<"inside", DefaultLab, "now">>, <<"outside", "", None>>, <<"unknown", "", None>> }

\* update_current_status(user_id, username, status, lab_name, last_entered_at)
update_current_status_call ==
    /\ Len(effects) < MaxCalls
    /\ \E uid \in Callers, username \in Usernames, t \in Tracked :
        /\ db' = update_current_status(db, uid, username, t[1], t[2], t[3])
        /\ effects' = Append(effects, DbCall("update_current_status",
                                             Row(uid, username, t[1], t[2], t[3])))
        /\ handler' = Job("update_current_status", uid, "")
    /\ UNCHANGED <<files, worker, threads>>

\* reset_all_statuses(), which returns cursor.rowcount
reset_all_statuses_call ==
    /\ Len(effects) < MaxCalls
    /\ db' = reset_all_statuses(db)
    /\ effects' = Append(effects, DbCall("reset_all_statuses", NoRow))
    /\ handler' = [Job("reset_all_statuses", "", "") EXCEPT
                      !.counts = Counts(reset_rowcount(db), 0, 0, 0)]
    /\ UNCHANGED <<files, worker, threads>>

NextDb ==
    \/ update_current_status_call
    \/ reset_all_statuses_call

SpecDb == InitTwice /\ [][NextDb]_vars

\* the calls of update_current_status for user u so far, by their place in effects
UpdatesOf(u) ==
    {k \in 1..Len(effects) :
        effects[k].kind = "update_current_status" /\ effects[k].row.user_id = u}

\* the last of them
LastUpdateOf(u) == CHOOSE k \in UpdatesOf(u) : \A j \in UpdatesOf(u) : j <= k

\* whether reset_all_statuses was called after the k-th call
ResetAfter(k) == \E j \in (k + 1)..Len(effects) : effects[j].kind = "reset_all_statuses"

\* C32: after any sequence of update_current_status and reset_all_statuses calls
\* the table has at most one row per user_id, and that row holds the username,
\* status, lab_name and last_entered_at of the user's most recent
\* update_current_status, unless a later reset overwrote them.
StatusTableIsLastWrite ==
    \A u \in AllUsers :
        /\ Len(RowsOf(db, u)) <= 1
        /\ UpdatesOf(u) = {} => RowsOf(db, u) = <<>>
        /\ UpdatesOf(u) # {} =>
              LET last == effects[LastUpdateOf(u)].row
              IN  /\ Len(RowsOf(db, u)) = 1
                  /\ RowOf(db, u).user_id = u
                  /\ RowOf(db, u).username = last.username
                  /\ ~ResetAfter(LastUpdateOf(u)) => RowOf(db, u) = last
                  /\ ResetAfter(LastUpdateOf(u)) =>
                        RowOf(db, u) = Row(u, last.username, "outside", None, None)

\* a user was inside, the statuses were reset, and the user was updated again under
\* another username: the row is the one of the second update
UpdatedAfterReset ==
    /\ Len(effects) = 3
    /\ effects[1] = DbCall("update_current_status",
                           Row("42", "aidin", "inside", DefaultLab, "now"))
    /\ effects[2].kind = "reset_all_statuses"
    /\ effects[3] = DbCall("update_current_status",
                           Row("42", "aidin_2", "unknown", "", None))
    /\ db.current_status = <<Row("42", "aidin_2", "unknown", "", None)>>

\* whether this step is a call of reset_all_statuses
ResetRuns ==
    /\ Len(effects') = Len(effects) + 1
    /\ effects'[Len(effects')].kind = "reset_all_statuses"

\* C33: reset_all_statuses sets every row to status outside with lab_name and
\* last_entered_at cleared, adds and removes no row, leaves user_id and username
\* as they were, and returns the number of rows.
ResetClearsEveryRow ==
    [][ ResetRuns =>
          /\ Len(db'.current_status) = Len(db.current_status)
          /\ \A i \in 1..Len(db.current_status) :
                db'.current_status[i] =
                   Row(db.current_status[i].user_id, db.current_status[i].username,
                       "outside", None, None)
          /\ handler'.counts.total = Len(db.current_status)
          /\ db'.status_events = db.status_events
          /\ db'.session_uploads = db.session_uploads ]_vars

\* two users had a row, one of them inside a lab, and the reset has returned 2
ResetOfTwoRows ==
    /\ Len(effects) = 3 /\ effects[3].kind = "reset_all_statuses"
    /\ handler.counts.total = 2
    /\ effects[1].row.status = "inside" /\ effects[1].row.username = "aidin"
    /\ db.current_status[1] = Row(effects[1].row.user_id, "aidin", "outside", None, None)
    /\ Len(db.current_status) = 2

(***************************************************************************)
(* The runtime pool step by step (client.py:57-104): _get_thread_runtime    *)
(* on the worker threads and shutdown_shared_browsers on the main thread,   *)
(* interleaved at every statement that reads or writes what they share.     *)
(***************************************************************************)
\* a lock that lets every thread in
CanAcquireAlways(lock) == TRUE

\* `with cls._runtime_lock:` can be entered
CanAcquire(lock) == lock = "free"

\* a second test that finds the flag down whatever it is
RecheckSkipped(flag) == FALSE

\* `if cls._atexit_registered: return`, under the lock
Recheck(flag) == flag

\* thread a moves on to the statement named by label
Goto(a, label) == [frames EXCEPT ![a].pc = label]

\* _get_thread_runtime is called on thread t and finds no runtime, or one whose
\* browser is not connected: on to _register_atexit.  (A connected one is returned
\* at once, which changes nothing.)
GetThreadRuntime_call(t) ==
    /\ frames[t].pc = "idle"
    /\ ~RuntimeIsUsable(StateOf(CachedRuntime(_thread_local, t)))
    /\ frames' = Goto(t, "register")
    /\ UNCHANGED <<procs, _runtimes, _thread_local, session, _runtime_lock,
                   _atexit_registered, _exithandlers, worker, bot>>

\* _register_atexit: the first test of the flag, without the lock
RegisterAtexit_test(t) ==
    /\ frames[t].pc = "register"
    /\ frames' = Goto(t, IF _atexit_registered THEN "launch" ELSE "register_lock")
    /\ UNCHANGED <<procs, _runtimes, _thread_local, session, _runtime_lock,
                   _atexit_registered, _exithandlers, worker, bot>>

\* _register_atexit: the lock is taken
RegisterAtexit_lock(t) ==
    /\ frames[t].pc = "register_lock"
    /\ CanAcquire(_runtime_lock)
    /\ _runtime_lock' = t
    /\ frames' = Goto(t, "register_recheck")
    /\ UNCHANGED <<procs, _runtimes, _thread_local, session, _atexit_registered,
                   _exithandlers, worker, bot>>

\* _register_atexit: the second test, and atexit.register when the flag is down
RegisterAtexit_register(t) ==
    /\ frames[t].pc = "register_recheck"
    /\ IF Recheck(_atexit_registered)
       THEN /\ _runtime_lock' = "free"
            /\ frames' = Goto(t, "launch")
            /\ UNCHANGED _exithandlers
       ELSE /\ _exithandlers' = _exithandlers + 1
            /\ frames' = Goto(t, "register_set")
            /\ UNCHANGED _runtime_lock
    /\ UNCHANGED <<procs, _runtimes, _thread_local, session, _atexit_registered,
                   worker, bot>>

\* _register_atexit: the flag is set and the lock given back
RegisterAtexit_set(t) ==
    /\ frames[t].pc = "register_set"
    /\ _atexit_registered' = TRUE
    /\ _runtime_lock' = "free"
    /\ frames' = Goto(t, "launch")
    /\ UNCHANGED <<procs, _runtimes, _thread_local, session, _exithandlers, worker, bot>>

\* sync_playwright().start() and firefox.launch(): either raises, or the runtime is
\* made and stored in the thread's _thread_local
GetThreadRuntime_launch(t) ==
    /\ frames[t].pc = "launch"
    /\ \E launch_ok \in BOOLEAN :
        IF launch_ok
        THEN /\ Len(procs) < MaxBrowsers
             /\ procs' = Append(procs, Launched(t, TRUE))
             /\ _thread_local' = [_thread_local EXCEPT ![t] = Len(procs) + 1]
             /\ frames' = [frames EXCEPT ![t] = [NoFrame EXCEPT !.pc = "append_lock",
                                                                !.runtime = Len(procs) + 1]]
        ELSE /\ frames' = [frames EXCEPT ![t] = NoFrame]
             /\ UNCHANGED <<procs, _thread_local>>
    /\ UNCHANGED <<_runtimes, session, _runtime_lock, _atexit_registered, _exithandlers,
                   worker, bot>>

\* `with self._runtime_lock:` before the append
GetThreadRuntime_lock(t) ==
    /\ frames[t].pc = "append_lock"
    /\ CanAcquire(_runtime_lock)
    /\ _runtime_lock' = t
    /\ frames' = Goto(t, "append")
    /\ UNCHANGED <<procs, _runtimes, _thread_local, session, _atexit_registered,
                   _exithandlers, worker, bot>>

\* self._runtimes.append(runtime), the lock is given back and the runtime returned
GetThreadRuntime_append(t) ==
    /\ frames[t].pc = "append"
    /\ _runtimes' = Append(_runtimes, frames[t].runtime)
    /\ _runtime_lock' = "free"
    /\ frames' = [frames EXCEPT ![t] = NoFrame]
    /\ UNCHANGED <<procs, _thread_local, session, _atexit_registered, _exithandlers,
                   worker, bot>>

\* shutdown_shared_browsers is called on the main thread
Shutdown_call ==
    /\ frames["main"].pc = "idle"
    /\ frames' = Goto("main", "shutdown_lock")
    /\ UNCHANGED <<procs, _runtimes, _thread_local, session, _runtime_lock,
                   _atexit_registered, _exithandlers, worker, bot>>

\* `with cls._runtime_lock:` of shutdown_shared_browsers
Shutdown_lock ==
    /\ frames["main"].pc = "shutdown_lock"
    /\ CanAcquire(_runtime_lock)
    /\ _runtime_lock' = "main"
    /\ frames' = Goto("main", "snapshot")
    /\ UNCHANGED <<procs, _runtimes, _thread_local, session, _atexit_registered,
                   _exithandlers, worker, bot>>

\* runtimes = list(cls._runtimes)
Shutdown_snapshot ==
    /\ frames["main"].pc = "snapshot"
    /\ frames' = [frames EXCEPT !["main"] = [@ EXCEPT !.pc = "clear",
                                                      !.runtimes = _runtimes]]
    /\ UNCHANGED <<procs, _runtimes, _thread_local, session, _runtime_lock,
                   _atexit_registered, _exithandlers, worker, bot>>

\* cls._runtimes.clear(), and the lock is given back
Shutdown_clear ==
    /\ frames["main"].pc = "clear"
    /\ _runtimes' = <<>>
    /\ _runtime_lock' = "free"
    /\ frames' = IF frames["main"].runtimes = <<>>
                 THEN [frames EXCEPT !["main"] = NoFrame]
                 ELSE Goto("main", "closing")
    /\ UNCHANGED <<procs, _thread_local, session, _atexit_registered, _exithandlers,
                   worker, bot>>

\* one round of `for runtime in runtimes`: browser.close() and playwright.stop(),
\* each in a try whose except passes; after the last round the call returns
Shutdown_close ==
    /\ frames["main"].pc = "closing"
    /\ LET rs == frames["main"].runtimes
       IN  /\ \E close_raises, stop_raises \in BOOLEAN :
                procs' = Shutdown(<<Head(rs)>>, procs,
                                  IF close_raises THEN {Head(rs)} ELSE {},
                                  IF stop_raises THEN {Head(rs)} ELSE {})
           /\ frames' = IF Tail(rs) = <<>>
                        THEN [frames EXCEPT !["main"] = NoFrame]
                        ELSE [frames EXCEPT !["main"].runtimes = Tail(rs)]
    /\ UNCHANGED <<_runtimes, _thread_local, session, _runtime_lock,
                   _atexit_registered, _exithandlers, worker, bot>>

NextRace ==
    \/ \E t \in Threads : GetThreadRuntime_call(t)
    \/ \E t \in Threads : RegisterAtexit_test(t)
    \/ \E t \in Threads : RegisterAtexit_lock(t)
    \/ \E t \in Threads : RegisterAtexit_register(t)
    \/ \E t \in Threads : RegisterAtexit_set(t)
    \/ \E t \in Threads : GetThreadRuntime_launch(t)
    \/ \E t \in Threads : GetThreadRuntime_lock(t)
    \/ \E t \in Threads : GetThreadRuntime_append(t)
    \/ Shutdown_call
    \/ Shutdown_lock
    \/ Shutdown_snapshot
    \/ Shutdown_clear
    \/ Shutdown_close
    \/ \E i \in 1..Len(procs) : BrowserCrashes(i)

SpecRace == InitTwice /\ [][NextRace]_vars

\* how many times x occurs in the sequence s
Occurrences(s, x) == Cardinality({k \in 1..Len(s) : s[k] = x})

\* the statements made under the runtime lock
Critical == {"register_recheck", "register_set", "append", "snapshot", "clear"}

\* the threads that are at such a statement
InCritical == {a \in Actors : frames[a].pc \in Critical}

\* runtime i is still on its way into the registry: its thread has launched it and
\* has not appended it yet
BeingAppended(i) ==
    \E t \in Threads : frames[t].runtime = i /\ frames[t].pc \in {"append_lock", "append"}

\* the runtimes shutdown_shared_browsers has taken out of the registry and not
\* closed yet
TakenOut == IF frames["main"].pc = "closing" THEN frames["main"].runtimes ELSE <<>>

\* at most one thread is under the lock, and it is the one that holds it; every
\* runtime that was appended is in the registry once, or was taken out by a shutdown
\* once
RegistryIsConsistent ==
    /\ Cardinality(InCritical) <= 1
    /\ \A a \in InCritical : _runtime_lock = a
    /\ \A i \in 1..Len(procs) :
          IF BeingAppended(i)
          THEN Occurrences(_runtimes, i) = 0 /\ procs[i].closes = 0
          ELSE Occurrences(_runtimes, i) + Occurrences(TakenOut, i) + procs[i].closes = 1

\* a step that changes the registry is made by the thread that holds the lock, at
\* the append or at the clear, while every other thread stays where it is
RegistryChangesUnderLock ==
    _runtimes' # _runtimes =>
        /\ _runtime_lock \in Actors
        /\ frames[_runtime_lock].pc \in {"append", "clear"}
        /\ _runtime_lock' = "free"
        /\ \A a \in Actors \ {_runtime_lock} : frames'[a] = frames[a]
        /\ frames[_runtime_lock].pc = "clear" =>
              /\ _runtimes' = <<>>
              /\ frames[_runtime_lock].runtimes = _runtimes
        /\ frames[_runtime_lock].pc = "append" =>
              _runtimes' = Append(_runtimes, frames[_runtime_lock].runtime)

\* C34: every mutation of the runtime registry (the append after a launch, the
\* snapshot and clear of a shutdown) is made while holding the single runtime lock:
\* for any interleaving of acquisitions and shutdowns no two threads are at the
\* registry at once, and no registered runtime is lost from it or put in it twice.
RegistryIsMutatedUnderLock ==
    []RegistryIsConsistent /\ [][RegistryChangesUnderLock]_vars

\* a worker waits for the lock with a runtime to append while the shutdown holds it
\* between its snapshot and its clear; the other worker's runtime is in the snapshot
AppendWaitsForShutdown ==
    /\ frames["main"].pc = "clear" /\ _runtime_lock = "main"
    /\ frames["main"].runtimes = <<1>> /\ _runtimes = <<1>>
    /\ \E t \in Threads : frames[t].pc = "append_lock" /\ frames[t].runtime = 2

\* no thread is inside _get_thread_runtime or shutdown_shared_browsers
AllReturned == \A a \in Actors : frames[a].pc = "idle"

\* C35: for any interleaving of _get_thread_runtime calls on the worker threads with
\* a call of shutdown_shared_browsers, once all calls have returned every launched
\* browser is either closed or still in the registry: none is both unclosed and
\* untracked.
LaunchedBrowsersAreClosedOrTracked ==
    AllReturned =>
        \A i \in 1..Len(procs) :
            procs[i].state = "closed" \/ i \in Registered(_runtimes)

\* the shutdown has returned; close() and stop() of the first runtime both raised,
\* so its browser is still up and the emptied registry does not hold it, while the
\* second worker's runtime, appended after the clear, is in the registry
UnclosedBrowserIsForgotten ==
    /\ AllReturned
    /\ Len(procs) = 2 /\ _runtimes = <<2>>
    /\ procs[1].state = "up" /\ procs[1].closes = 1 /\ procs[1].stops = 1
    /\ procs[2].state = "up" /\ procs[2].closes = 0

\* C39: for any interleaving of first acquisitions on several worker threads the
\* shutdown hook is registered with atexit exactly once (the flag is tested again
\* under the runtime lock), and no browser is launched through the pool before the
\* hook is registered.
ShutdownHookIsRegisteredOnce ==
    /\ _exithandlers <= 1
    /\ _atexit_registered => _exithandlers = 1
    /\ \A t \in Threads :
          frames[t].pc \in {"launch", "append_lock", "append"} =>
             _atexit_registered /\ _exithandlers = 1
    /\ procs # <<>> => _atexit_registered /\ _exithandlers = 1

\* both workers found the flag down in their first test; one has registered the
\* hook, set the flag and launched its browser, the other now holds the lock for
\* the second test
SecondTestFindsHook ==
    /\ frames["w1"].pc = "register_recheck" /\ _runtime_lock = "w1"
    /\ _atexit_registered /\ _exithandlers = 1
    /\ Len(procs) = 1 /\ procs[1].owner = "w2"

(***************************************************************************)
(* _wait_until statement by statement (client.py:127-140), on the clock of *)
(* its thread: time is counted in poll intervals from the call, a sleep    *)
(* takes one interval or more, an evaluation of the predicate any time.    *)
(***************************************************************************)
\* the timeouts a call is given, in poll intervals: DEILABS_ACTION_WAIT_TIMEOUT_MS
\* and DEILABS_PAGE_WAIT_TIMEOUT_MS can be zero or negative
Timeouts == (-1)..(MaxPolls + 1)

\* how long a statement can take
Durations == {0, 1}

\* what evaluating the predicate can give
PredicateOutcomes == {"true", "false", "raises"}

\* a loop test that lets the deadline itself through
BeforeOrAtDeadline(now, deadline) == now <= deadline

\* monotonic() < deadline
BeforeDeadline(now, deadline) == now < deadline

\* one evaluation of the predicate: what it gave, when, and whether in the loop
Evaluation(value, at, loop) == [value |-> value, at |-> at, loop |-> loop]

\* _wait_until(page, predicate, timeout_ms) is called on thread t:
\* deadline = monotonic() + timeout_ms / 1000.0
WaitUntil_call(t) ==
    /\ frames[t].pc = "idle"
    /\ \E timeout \in Timeouts :
        frames' = [frames EXCEPT ![t] =
                      [ pc |-> "while", deadline |-> timeout, now |-> 0, evals |-> <<>>,
                        result |-> "none" ]]
    /\ UNCHANGED <<procs, _runtimes, _thread_local, session, _runtime_lock,
                   _atexit_registered, _exithandlers, worker, bot>>

\* while monotonic() < deadline
WaitUntil_while(t) ==
    /\ frames[t].pc = "while"
    /\ frames' = Goto(t, IF BeforeDeadline(frames[t].now, frames[t].deadline)
                         THEN "predicate" ELSE "final")
    /\ UNCHANGED <<procs, _runtimes, _thread_local, session, _runtime_lock,
                   _atexit_registered, _exithandlers, worker, bot>>

\* the try of the loop: `if predicate(): return True`, and `except Exception: pass`
WaitUntil_predicate(t) ==
    /\ frames[t].pc = "predicate"
    /\ \E v \in PredicateOutcomes, d \in Durations :
        frames' = [frames EXCEPT ![t] =
                      [@ EXCEPT !.evals = Append(@, Evaluation(v, frames[t].now, TRUE)),
                                !.now = @ + d,
                                !.result = IF v = "true" THEN "True" ELSE @,
                                !.pc = IF v = "true" THEN "returned" ELSE "sleep"]]
    /\ UNCHANGED <<procs, _runtimes, _thread_local, session, _runtime_lock,
                   _atexit_registered, _exithandlers, worker, bot>>

\* page.wait_for_timeout(self.poll_interval_ms)
WaitUntil_sleep(t) ==
    /\ frames[t].pc = "sleep"
    /\ \E d \in Durations :
        frames' = [frames EXCEPT ![t] = [@ EXCEPT !.now = @ + 1 + d, !.pc = "while"]]
    /\ UNCHANGED <<procs, _runtimes, _thread_local, session, _runtime_lock,
                   _atexit_registered, _exithandlers, worker, bot>>

\* after the loop: `return bool(predicate())`, and `except Exception: return False`
WaitUntil_final(t) ==
    /\ frames[t].pc = "final"
    /\ \E v \in PredicateOutcomes :
        frames' = [frames EXCEPT ![t] =
                      [@ EXCEPT !.evals = Append(@, Evaluation(v, frames[t].now, FALSE)),
                                !.result = IF v = "true" THEN "True" ELSE "False",
                                !.pc = "returned"]]
    /\ UNCHANGED <<procs, _runtimes, _thread_local, session, _runtime_lock,
                   _atexit_registered, _exithandlers, worker, bot>>

\* the caller goes on
WaitUntil_return(t) ==
    /\ frames[t].pc = "returned"
    /\ frames' = [frames EXCEPT ![t] = NoFrame]
    /\ UNCHANGED <<procs, _runtimes, _thread_local, session, _runtime_lock,
                   _atexit_registered, _exithandlers, worker, bot>>

NextWait ==
    \/ \E t \in Threads : WaitUntil_call(t)
    \/ \E t \in Threads : WaitUntil_while(t)
    \/ \E t \in Threads : WaitUntil_predicate(t)
    \/ \E t \in Threads : WaitUntil_sleep(t)
    \/ \E t \in Threads : WaitUntil_final(t)
    \/ \E t \in Threads : WaitUntil_return(t)

SpecWait == InitTwice /\ [][NextWait]_vars

\* C40: _wait_until evaluates the predicate at least once, also when the timeout is
\* zero or has already passed; it returns True as soon as one evaluation is true;
\* an exception of the predicate counts as false and does not leave _wait_until;
\* otherwise it returns the value of one last evaluation, made after the deadline.
WaitUntilEvaluatesOnceMore ==
    \A t \in Threads :
        frames[t].pc = "returned" =>
            LET f == frames[t]
                n == Len(f.evals)
            IN  /\ n >= 1
                /\ f.result \in {"True", "False"}
                /\ f.result = "True" <=> f.evals[n].value = "true"
                /\ \A k \in 1..(n - 1) :
                      /\ f.evals[k].loop
                      /\ f.evals[k].value # "true"
                      /\ f.evals[k].at < f.deadline
                /\ f.evals[n].loop => f.evals[n].value = "true" /\ f.evals[n].at < f.deadline
                /\ ~f.evals[n].loop => f.evals[n].at >= f.deadline
                /\ f.deadline <= 0 => n = 1 /\ ~f.evals[1].loop

\* a call with timeout zero has returned False: the predicate was evaluated once,
\* after the loop, and raised
ZeroTimeoutEvaluatedOnce ==
    /\ frames["w1"].pc = "returned" /\ frames["w1"].deadline = 0
    /\ frames["w1"].evals = <<Evaluation("raises", 0, FALSE)>>
    /\ frames["w1"].result = "False"

\* the places of the successful page.click calls among the browser calls
OkClickAt == {i \in 1..Len(calls) : calls[i].api = "click" /\ calls[i].ok}

\* C36: an invocation of ensure_presence or leave_lab makes at most one successful
\* button click: the selector loop stops at the first click that goes through, and
\* no path of the operation clicks again after it, whether or not the log entry of
\* the click could be written.
ClicksAtMostOnce ==
    /\ Cardinality(OkClickAt) <= 1
    /\ \A i \in OkClickAt :
          /\ i = Len(calls)
          /\ pc \notin {"enter_lab", "enter_click", "exit_click"}
          /\ op \in {"ensure_presence", "leave_lab"}

\* leave_lab has ended; the first exit candidate could not be clicked, the second
\* was, and the log file could not be written
ClickedOnceWhileLogFailed ==
    /\ op = "leave_lab" /\ pc = "done"
    /\ logDisk \notin {"ok", "unknown"}
    /\ Len(calls) = 2 /\ ~calls[1].ok /\ calls[2].ok /\ calls[2].api = "click"
    /\ \E k \in 1..Len(logs) : logs[k].event = "click_exit" /\ logs[k].warned

(***************************************************************************)
(* Session expiry after the click                                           *)
(***************************************************************************)
\* the page at the end of the wait shows the session as expired and does not show
\* the inside markers, and its content can be read
ExpiredNotInside(p) == ~ContentRaises(p) /\ _is_session_expired(p) /\ ~_is_inside_lab(p)

\* what the operations return once a click has worked
AfterClickOutcome ==
    (Decided /\ OkClicks(calls) >= 1)
    => /\ ret # Return(_session_expired_message(self))
       /\ (op = "ensure_presence" /\ ExpiredNotInside(page))
            => ret = Return(MsgEnterUncertain)
       /\ (op = "leave_lab" /\ ExpiredNotInside(page))
            => ret = Return(MsgExited)

\* a wait that finds the session expired is over with that evaluation
ExpiryEndsWait ==
    (pc \in {"wait_entered", "wait_left"} /\ ExpiredNotInside(page))
    => (pc' \in {"enter_recheck", "leave_recheck"} /\ page' = page)

\* C37: once a click has succeeded neither ensure_presence nor leave_lab returns
\* the session-expired message; an expiry seen during the wait after the click
\* ends the wait at once, ensure_presence then returns the could-not-confirm
\* message and leave_lab, the expired page not showing the inside markers, the
\* left-the-lab message.
ExpiryAfterClickIsNotSessionExpired == []AfterClickOutcome /\ [][ExpiryEndsWait]_vars

\* the enter click worked, the session expired during the wait and screenshots/
\* could not be created: ensure_presence raised
ExpiredAfterClickRaises ==
    /\ op = "ensure_presence" /\ pc = "done"
    /\ OkClicks(calls) = 1
    /\ ExpiredNotInside(page)
    /\ fs = "mkdir_fails"
    /\ ret = Raise(MkdirError)

(***************************************************************************)
(* Commands one after the other: the second finds the row the first left    *)
(***************************************************************************)
\* /punch and /exit, several in a row
Command_start_again == CommandStart({"punch", "exit"}, MaxCommands)

NextCommands ==
    \/ Command_start_again
    \/ Command_finish

SpecCommands == InitTwice /\ [][NextCommands]_vars

\* the step in which cmd ends with the client's result
CommandEndsWith(cmd, result) ==
    /\ handler.at = "client" /\ handler.cmd = cmd
    /\ handler'.at = "done" /\ handler'.out = Return(result)

\* the step logged one status event, of this user, with success False
LoggedOneFailure ==
    /\ Len(db'.status_events) = Len(db.status_events) + 1
    /\ SubSeq(db'.status_events, 1, Len(db.status_events)) = db.status_events
    /\ db'.status_events[Len(db'.status_events)].user_id = handler.uid
    /\ db'.status_events[Len(db'.status_events)].success = "False"

\* C38: after exit_cmd receives the still-appears-inside outcome
\* _derive_current_state gives None and the current_status table is left as it
\* was; after punch_cmd receives the could-not-confirm outcome the user's row is
\* set to unknown; in both cases one status event is logged, with success False.
UncertainOutcomesAreRecorded ==
    [][ /\ CommandEndsWith("exit", MsgLeaveUncertain)
          => /\ _derive_current_state(handler.lab, "exit", MsgLeaveUncertain) = NoState
             /\ db'.current_status = db.current_status
             /\ LoggedOneFailure
        /\ CommandEndsWith("punch", MsgEnterUncertain)
          => /\ Len(RowsOf(db', handler.uid)) = 1
             /\ RowOf(db', handler.uid).status = "unknown"
             /\ \A u \in AllUsers \ {handler.uid} : RowsOf(db', u) = RowsOf(db, u)
             /\ LoggedOneFailure ]_vars

\* a user who was recorded inside got the still-appears-inside outcome from /exit:
\* the row still says inside
UncertainExitKeptInsideRow ==
    /\ handler.cmd = "exit" /\ handler.at = "done"
    /\ Result = MsgLeaveUncertain
    /\ RowOf(db, handler.uid).status = "inside"
    /\ Len(db.status_events) = 2
    /\ db.status_events[2].success = "False"

====
